---- MODULE Spec2Model ----
(***************************************************************************)
(* Verification model of the end-to-end encryption core of chat-web:       *)
(* key derivation, sealed-box key exchange, the versioned message cipher   *)
(* and the invite orchestrator.                                            *)
(*                                                                         *)
(* Byte strings are sequences of integers 0..255, JavaScript strings are   *)
(* sequences of UTF-16 code units.  The libsodium / noble primitives the   *)
(* code calls are replaced by small algebraic stand-ins that keep the      *)
(* interface, the lengths and the algebra of the real ones (public key =   *)
(* base-point multiple of the secret key, Diffie-Hellman commutes, the     *)
(* authenticator covers key, nonce and ciphertext, HMAC zero-pads its      *)
(* key); a hash is a length-prefixed copy, i.e. collision-free on the      *)
(* bounded inputs of the model.                                            *)
(***************************************************************************)
EXTENDS Integers, Sequences, FiniteSets, TLC

\* ------------------------------------------------------------------------
\* State
\* ------------------------------------------------------------------------
VARIABLES
    \* lib/crypto, called on sampled inputs
    pc,          \* position of the crypto call sequence
    box,         \* sealed-box call: data, recipient keypair, record, opener key
    msg,         \* message-cipher call: message, key, nonce, envelope, opener key
    out,         \* result of the last decryption
    edit,        \* which region of the record / envelope was modified in transit
    \* key derivation
    authMethod,  \* 'wallet' | 'zklogin' (useAuthMethod)
    claims,      \* the identity claims of the zkLogin user
    calls,       \* the derivation calls made so far, oldest first
    \* useZkLoginKeypair
    session,     \* the wallet's zkLogin session: its JWT and decoded payload
    hook,        \* the hook state: keypair, publicKeyBase64, isLoading, error
    runs,        \* the derive() calls of the hook, each with its position
    \* invite flow
    room,        \* the encrypted room: its key and the inviter's record on the ledger
    inviter,     \* the inviting user's keypair
    invitee,     \* the invited user's keypair and profile (chat index, public key)
    inv,         \* the invite call in progress
    txs,         \* the invite_to_chat transactions built so far
    \* chat room page
    sodiumReady, \* a call of initCrypto has completed (sodium.ready resolved)
    chat,        \* the open room: isEncrypted, the key of the room, the decrypted roomKey
    rawMessages, \* the contents of the messages useMessages fetched, oldest first
    sent,        \* the send_message transactions built so far
    early,       \* the crypto primitives called before initCrypto completed
    \* the browser
    storage,     \* the entries of window.localStorage and window.sessionStorage
    \* room creation
    attempts,    \* the calls of handleCreateRoom so far, oldest first
    \* useRoomKeyDecryption
    keyHook,     \* one instance: its chatId, its state, its calls of decryptRoomKey
    \* useSponsoredTransaction
    sponsored,   \* one instance: isPending, the execute call and its requests
    \* useMessages
    cache        \* the cached message list of the chat and the appends in flight

\* ------------------------------------------------------------------------
\* Results of a call: a value, JavaScript null, or a thrown exception
\* ------------------------------------------------------------------------
Val(x) == [tag |-> "val", v |-> x]
Null == [tag |-> "null", v |-> <<>>]
Throw == [tag |-> "throw", v |-> <<>>]

\* ------------------------------------------------------------------------
\* Program constants
\* ------------------------------------------------------------------------
MESSAGE_VERSION == 1
KEYBYTES == 32
NONCEBYTES == 24
MACBYTES == 16
SEALBYTES == 48
BLOCKLEN == 64

\* ------------------------------------------------------------------------
\* Bounds of the model
\* ------------------------------------------------------------------------
MaxMsgLen == 2
NumRandom == 2
MaxCalls == 2
MaxRuns == 2
MaxFetched == 2
MaxSends == 2
MaxTxs == 2

\* ------------------------------------------------------------------------
\* Byte-string helpers
\* ------------------------------------------------------------------------
RECURSIVE SumTo(_, _)
SumTo(s, i) == IF i = 0 THEN 0 ELSE s[i] + SumTo(s, i - 1)
Sum(s) == SumTo(s, Len(s)) % 256

RECURSIVE WSumTo(_, _)
WSumTo(s, i) == IF i = 0 THEN 0 ELSE i * s[i] + WSumTo(s, i - 1)
WSum(s) == WSumTo(s, Len(s)) % 256

Zeros(n) == [i \in 1..n |-> 0]
\* s.slice(from - 1, to): clipped at the end of s
Slice(s, from, to) ==
    LET last == IF to > Len(s) THEN Len(s) ELSE to
    IN IF last < from THEN <<>> ELSE [i \in 1..(last - from + 1) |-> s[from + i - 1]]
SliceFrom(s, from) == Slice(s, from, Len(s))
PadTo(s, n) == IF Len(s) >= n THEN Slice(s, 1, n) ELSE s \o Zeros(n - Len(s))

\* A 32-byte hash: length-prefixed copy of the input (collision-free for
\* inputs of at most 31 bytes, which the bounds of the model guarantee).
Digest32(x) == PadTo(<<Len(x) % 256>> \o x, KEYBYTES)

\* ------------------------------------------------------------------------
\* TextEncoder / TextDecoder (UTF-8)
\* ------------------------------------------------------------------------
IsHigh(c) == c >= 55296 /\ c <= 56319
IsLow(c) == c >= 56320 /\ c <= 57343
REPLACEMENT == <<239, 191, 189>>

Utf8OfCodePoint(c) ==
    IF c < 128 THEN <<c>>
    ELSE IF c < 2048 THEN <<192 + (c \div 64), 128 + (c % 64)>>
    ELSE IF c < 65536 THEN <<224 + (c \div 4096), 128 + ((c \div 64) % 64), 128 + (c % 64)>>
    ELSE <<240 + (c \div 262144), 128 + ((c \div 4096) % 64),
           128 + ((c \div 64) % 64), 128 + (c % 64)>>

RECURSIVE EncodeFrom(_, _)
EncodeFrom(s, i) ==
    IF i > Len(s) THEN <<>>
    ELSE IF IsHigh(s[i]) /\ i < Len(s) /\ IsLow(s[i + 1])
         THEN Utf8OfCodePoint(65536 + (s[i] - 55296) * 1024 + (s[i + 1] - 56320))
                 \o EncodeFrom(s, i + 2)
    ELSE IF IsHigh(s[i]) \/ IsLow(s[i])
         THEN REPLACEMENT \o EncodeFrom(s, i + 1)
    ELSE Utf8OfCodePoint(s[i]) \o EncodeFrom(s, i + 1)

\* sodium.from_string / new TextEncoder().encode
from_string(s) == EncodeFrom(s, 1)

IsCont(b) == b >= 128 /\ b <= 191

\* Code units of a decoded code point
UnitsOf(cp) ==
    IF cp < 65536 THEN <<cp>>
    ELSE <<55296 + ((cp - 65536) \div 1024), 56320 + ((cp - 65536) % 1024)>>

\* TextDecoder("utf-8", {fatal: true}): Throw on an ill-formed sequence
RECURSIVE DecodeFrom(_, _)
DecodeFrom(b, i) ==
    IF i > Len(b) THEN Val(<<>>)
    ELSE LET b0 == b[i]
             n == IF b0 < 128 THEN 1
                  ELSE IF b0 >= 194 /\ b0 <= 223 THEN 2
                  ELSE IF b0 >= 224 /\ b0 <= 239 THEN 3
                  ELSE IF b0 >= 240 /\ b0 <= 244 THEN 4
                  ELSE 0
         IN IF n = 0 \/ i + n - 1 > Len(b) THEN Throw
            ELSE IF \E j \in 1..(n - 1) : ~IsCont(b[i + j]) THEN Throw
            ELSE IF (b0 = 224 /\ b[i + 1] < 160) \/ (b0 = 237 /\ b[i + 1] > 159)
                    \/ (b0 = 240 /\ b[i + 1] < 144) \/ (b0 = 244 /\ b[i + 1] > 143)
                 THEN Throw
            ELSE LET cp == IF n = 1 THEN b0
                           ELSE IF n = 2 THEN (b0 - 192) * 64 + (b[i + 1] - 128)
                           ELSE IF n = 3 THEN (b0 - 224) * 4096 + (b[i + 1] - 128) * 64
                                              + (b[i + 2] - 128)
                           ELSE (b0 - 240) * 262144 + (b[i + 1] - 128) * 4096
                                + (b[i + 2] - 128) * 64 + (b[i + 3] - 128)
                     rest == DecodeFrom(b, i + n)
                 IN IF rest.tag = "throw" THEN Throw ELSE Val(UnitsOf(cp) \o rest.v)

BOM == <<239, 187, 191>>

\* sodium.to_string: the decoder drops a leading byte-order mark (ignoreBOM
\* is left at its default)
to_string(b) ==
    IF Len(b) >= 3 /\ Slice(b, 1, 3) = BOM THEN DecodeFrom(b, 4) ELSE DecodeFrom(b, 1)

\* ------------------------------------------------------------------------
\* Base64, original variant with padding.  A text is a sequence of digits:
\* 0..63 the alphabet, 64 the '=' sign, anything else not in the alphabet.
\* ------------------------------------------------------------------------
PADCHAR == 64

RECURSIVE B64Enc(_, _)
B64Enc(b, i) ==
    IF i > Len(b) THEN <<>>
    ELSE IF i + 2 <= Len(b)
         THEN <<b[i] \div 4, (b[i] % 4) * 16 + (b[i + 1] \div 16),
                (b[i + 1] % 16) * 4 + (b[i + 2] \div 64), b[i + 2] % 64>>
              \o B64Enc(b, i + 3)
    ELSE IF i + 1 = Len(b)
         THEN <<b[i] \div 4, (b[i] % 4) * 16 + (b[i + 1] \div 16),
                (b[i + 1] % 16) * 4, PADCHAR>>
    ELSE <<b[i] \div 4, (b[i] % 4) * 16, PADCHAR, PADCHAR>>

to_base64(b) == B64Enc(b, 1)

IsDigit64(c) == c >= 0 /\ c <= 63

RECURSIVE B64Dec(_, _)
B64Dec(t, i) ==
    IF i > Len(t) THEN Val(<<>>)
    ELSE LET a == t[i]
             b == t[i + 1]
             c == t[i + 2]
             d == t[i + 3]
             last == i + 3 = Len(t)
         IN IF ~IsDigit64(a) \/ ~IsDigit64(b) THEN Throw
            ELSE IF c = PADCHAR
                 THEN IF last /\ d = PADCHAR /\ b % 16 = 0
                      THEN Val(<<a * 4 + (b \div 16)>>) ELSE Throw
            ELSE IF ~IsDigit64(c) THEN Throw
            ELSE IF d = PADCHAR
                 THEN IF last /\ c % 4 = 0
                      THEN Val(<<a * 4 + (b \div 16), (b % 16) * 16 + (c \div 4)>>)
                      ELSE Throw
            ELSE IF ~IsDigit64(d) THEN Throw
            ELSE LET rest == B64Dec(t, i + 4)
                 IN IF rest.tag = "throw" THEN Throw
                    ELSE Val(<<a * 4 + (b \div 16), (b % 16) * 16 + (c \div 4),
                               (c % 4) * 64 + d>> \o rest.v)

\* sodium.from_base64: throws on a text that is not canonical padded base64
from_base64(t) == IF Len(t) % 4 # 0 THEN Throw ELSE B64Dec(t, 1)

\* ------------------------------------------------------------------------
\* libsodium primitives (algebraic stand-ins, see the header)
\* ------------------------------------------------------------------------

\* sodium.crypto_generichash(32, x)
crypto_generichash(x) == Digest32(x)

\* sodium.crypto_scalarmult_base(sk): the public key of a secret key
crypto_scalarmult_base(sk) ==
    IF Len(sk) # KEYBYTES THEN Throw
    ELSE Val([i \in 1..KEYBYTES |-> (sk[i] * 3) % 256])

\* The Diffie-Hellman shared key of a secret key and a public key:
\* DH(a, Base(b)) = DH(b, Base(a))
DH(sk, pk) == [i \in 1..KEYBYTES |-> (sk[i] * pk[i]) % 256]

\* sodium.crypto_box_seed_keypair(seed)
crypto_box_seed_keypair(seed) ==
    LET sk == [i \in 1..KEYBYTES |-> (seed[i] * 5 + 1) % 256]
    IN [publicKey |-> crypto_scalarmult_base(sk).v, privateKey |-> sk]

\* The Poly1305 authenticator of a secretbox: it covers the key, the nonce
\* and every byte of the ciphertext
Mac(k, n, ct) ==
    <<Sum(ct), WSum(ct), Sum(k), WSum(k), Sum(n), WSum(n), Len(ct) % 256>>
        \o Zeros(MACBYTES - 7)

\* The XSalsa20 key stream byte at position i
Stream(k, n, i) == (Sum(k) + WSum(n) + i) % 256

\* sodium.crypto_secretbox_easy(m, nonce, key): authenticator, then ciphertext
crypto_secretbox_easy(m, n, k) ==
    IF Len(n) # NONCEBYTES \/ Len(k) # KEYBYTES THEN Throw
    ELSE LET ct == [i \in 1..Len(m) |-> (m[i] + Stream(k, n, i)) % 256]
         IN Val(Mac(k, n, ct) \o ct)

\* sodium.crypto_secretbox_open_easy(c, nonce, key): throws on a short input
\* and on an authenticator that does not verify
crypto_secretbox_open_easy(c, n, k) ==
    IF Len(n) # NONCEBYTES \/ Len(k) # KEYBYTES \/ Len(c) < MACBYTES THEN Throw
    ELSE LET ct == SliceFrom(c, MACBYTES + 1)
         IN IF Slice(c, 1, MACBYTES) # Mac(k, n, ct) THEN Throw
            ELSE Val([i \in 1..Len(ct) |-> (ct[i] + 256 - Stream(k, n, i)) % 256])

\* The nonce of a sealed box: a hash of the ephemeral and the recipient key
SealNonce(epk, pk) == PadTo(<<Sum(epk), WSum(epk), Sum(pk), WSum(pk)>>, NONCEBYTES)

\* sodium.crypto_box_seal(m, pk), esk the ephemeral secret key it draws:
\* ephemeral public key, then the box of m under the shared key
crypto_box_seal(m, pk, esk) ==
    IF Len(pk) # KEYBYTES THEN Throw
    ELSE LET epk == crypto_scalarmult_base(esk).v
         IN Val(epk \o crypto_secretbox_easy(m, SealNonce(epk, pk), DH(esk, pk)).v)

\* sodium.crypto_box_seal_open(c, pk, sk)
crypto_box_seal_open(c, pk, sk) ==
    IF Len(pk) # KEYBYTES \/ Len(sk) # KEYBYTES \/ Len(c) < KEYBYTES + MACBYTES THEN Throw
    ELSE LET epk == Slice(c, 1, KEYBYTES)
         IN crypto_secretbox_open_easy(SliceFrom(c, KEYBYTES + 1), SealNonce(epk, pk),
                                       DH(sk, epk))

\* sodium.randombytes_buf(n): the byte strings the generator can return
randombytes_buf(n) == {[j \in 1..n |-> (r * 37 + j) % 256] : r \in 1..NumRandom}

\* ------------------------------------------------------------------------
\* @noble/hashes hkdf(sha256, ikm, salt, info, 32)
\* ------------------------------------------------------------------------
RECURSIVE LastNonZero(_, _)
LastNonZero(s, i) == IF i = 0 \/ s[i] # 0 THEN i ELSE LastNonZero(s, i - 1)
StripZeros(s) == Slice(s, 1, LastNonZero(s, Len(s)))

\* HMAC hashes a key longer than a block and zero-pads a shorter one to the
\* block length, so trailing zero bytes of a key are not significant
HmacKey(key) == StripZeros(IF Len(key) > BLOCKLEN THEN Digest32(key) ELSE key)

hmac(key, m) == LET k == HmacKey(key) IN Digest32(<<Len(k)>> \o k \o m)

\* extract: PRK = HMAC(salt, ikm); expand: T(1) = HMAC(PRK, info || 0x01)
hkdf(ikm, salt, info, length) == Slice(hmac(hmac(salt, ikm), info \o <<1>>), 1, length)

\* ------------------------------------------------------------------------
\* lib/crypto: key derivation
\* ------------------------------------------------------------------------
\* Variant: the number of earlier calls is hashed in with the signature
deriveEncryptionKeypair_Counter(signature) ==
    LET seed == crypto_generichash(Append(signature, Len(calls)))
        keypair == crypto_box_seed_keypair(seed)
    IN [publicKey |-> keypair.publicKey, secretKey |-> keypair.privateKey]

deriveEncryptionKeypair(signature) ==
    LET seed == crypto_generichash(signature)
        keypair == crypto_box_seed_keypair(seed)
    IN [publicKey |-> keypair.publicKey, secretKey |-> keypair.privateKey]

\* A JavaScript value that is a string or undefined
Str(s) == [def |-> TRUE, s |-> s]
Undefined == [def |-> FALSE, s |-> <<>>]
UNDEFINED_TEXT == <<117, 110, 100, 101, 102, 105, 110, 101, 100>>
COLON == 58

\* `${x}` of a template literal
Interpolate(x) == IF x.def THEN x.s ELSE UNDEFINED_TEXT
\* new TextEncoder().encode(x): an undefined argument encodes as ''
TextEncode(x) == IF x.def THEN from_string(x.s) ELSE <<>>

\* new TextEncoder().encode(`${iss}:${aud}`)
SaltParameter(c) == from_string(Interpolate(c.iss) \o <<COLON>> \o Interpolate(c.aud))

\* Variant: the subject is not passed to HKDF as the info parameter
deriveEncryptionKeypairFromZkLogin_NoInfo(c) ==
    LET seed == hkdf(TextEncode(c.userSalt), SaltParameter(c), <<>>, KEYBYTES)
        keypair == crypto_box_seed_keypair(seed)
    IN [publicKey |-> keypair.publicKey, secretKey |-> keypair.privateKey]

deriveEncryptionKeypairFromZkLogin(c) ==
    LET seed == hkdf(TextEncode(c.userSalt), SaltParameter(c), TextEncode(c.sub), KEYBYTES)
        keypair == crypto_box_seed_keypair(seed)
    IN [publicKey |-> keypair.publicKey, secretKey |-> keypair.privateKey]

\* ------------------------------------------------------------------------
\* lib/crypto: sealed box
\* ------------------------------------------------------------------------
\* Variant: the data is returned as it came, not sealed
encryptWithPublicKey_Plain(data, publicKey, esk) ==
    IF Len(publicKey) # KEYBYTES THEN Throw ELSE Val(data)

\* Variant: the ephemeral public key is left out of the record
encryptWithPublicKey_NoEphemeralKey(data, publicKey, esk) ==
    LET sealed == crypto_box_seal(data, publicKey, esk)
    IN IF sealed.tag = "throw" THEN Throw ELSE Val(SliceFrom(sealed.v, KEYBYTES + 1))

encryptWithPublicKey(data, publicKey, esk) == crypto_box_seal(data, publicKey, esk)

\* Variant: no try / catch around the body
decryptWithSecretKey_Uncaught(encryptedData, secretKey) ==
    LET publicKey == crypto_scalarmult_base(secretKey)
    IN IF publicKey.tag = "throw" THEN Throw
       ELSE crypto_box_seal_open(encryptedData, publicKey.v, secretKey)

\* Variant: the secret key itself is passed as the recipient public key
decryptWithSecretKey_NoRecompute(encryptedData, secretKey) ==
    LET opened == crypto_box_seal_open(encryptedData, secretKey, secretKey)
    IN IF opened.tag = "throw" THEN Null ELSE opened

decryptWithSecretKey(encryptedData, secretKey) ==
    LET publicKey == crypto_scalarmult_base(secretKey)
    IN IF publicKey.tag = "throw" THEN Null
       ELSE LET opened == crypto_box_seal_open(encryptedData, publicKey.v, secretKey)
            IN IF opened.tag = "throw" THEN Null ELSE opened

\* ------------------------------------------------------------------------
\* lib/crypto: message cipher
\* ------------------------------------------------------------------------

\* Variant: the nonce is taken from the key instead of the random draw
encryptMessage_KeyNonce(message, key, nonce) ==
    LET messageBytes == from_string(message)
        derived == Slice(key, 1, NONCEBYTES)
        ciphertext == crypto_secretbox_easy(messageBytes, derived, key)
    IN IF ciphertext.tag = "throw" THEN Throw
       ELSE Val(to_base64(<<MESSAGE_VERSION>> \o derived \o ciphertext.v))

\* encryptMessage after it has drawn its nonce
encryptMessage(message, key, nonce) ==
    LET messageBytes == from_string(message)
        ciphertext == crypto_secretbox_easy(messageBytes, nonce, key)
    IN IF ciphertext.tag = "throw" THEN Throw
       ELSE Val(to_base64(<<MESSAGE_VERSION>> \o nonce \o ciphertext.v))

\* Variant: no try / catch around the body
decryptMessage_Uncaught(encryptedMessage, key) ==
    LET data == from_base64(encryptedMessage)
    IN IF data.tag = "throw" THEN Throw
       ELSE IF Len(data.v) = 0 \/ data.v[1] # MESSAGE_VERSION THEN Null
       ELSE LET nonce == Slice(data.v, 2, 1 + NONCEBYTES)
                ciphertext == SliceFrom(data.v, 2 + NONCEBYTES)
                decrypted == crypto_secretbox_open_easy(ciphertext, nonce, key)
            IN IF decrypted.tag = "throw" THEN Throw
               ELSE to_string(decrypted.v)

\* Variant: the nonce is sliced one byte short (bytes [1, 24))
decryptMessage_ShortNonce(encryptedMessage, key) ==
    LET data == from_base64(encryptedMessage)
    IN IF data.tag = "throw" THEN Null
       ELSE IF Len(data.v) = 0 \/ data.v[1] # MESSAGE_VERSION THEN Null
       ELSE LET nonce == Slice(data.v, 2, NONCEBYTES)
                ciphertext == SliceFrom(data.v, 2 + NONCEBYTES)
                decrypted == crypto_secretbox_open_easy(ciphertext, nonce, key)
            IN IF decrypted.tag = "throw" THEN Null
               ELSE LET text == to_string(decrypted.v)
                    IN IF text.tag = "throw" THEN Null ELSE text

\* Variant: the version byte is not compared with MESSAGE_VERSION
decryptMessage_AnyVersion(encryptedMessage, key) ==
    LET data == from_base64(encryptedMessage)
    IN IF data.tag = "throw" THEN Null
       ELSE LET nonce == Slice(data.v, 2, 1 + NONCEBYTES)
                ciphertext == SliceFrom(data.v, 2 + NONCEBYTES)
                decrypted == crypto_secretbox_open_easy(ciphertext, nonce, key)
            IN IF decrypted.tag = "throw" THEN Null
               ELSE LET text == to_string(decrypted.v)
                    IN IF text.tag = "throw" THEN Null ELSE text

\* Variant: a failed decryption yields the empty string instead of null
decryptMessage_EmptyOnFailure(encryptedMessage, key) ==
    LET data == from_base64(encryptedMessage)
    IN IF data.tag = "throw" THEN Val(<<>>)
       ELSE IF Len(data.v) = 0 \/ data.v[1] # MESSAGE_VERSION THEN Null
       ELSE LET nonce == Slice(data.v, 2, 1 + NONCEBYTES)
                ciphertext == SliceFrom(data.v, 2 + NONCEBYTES)
                decrypted == crypto_secretbox_open_easy(ciphertext, nonce, key)
            IN IF decrypted.tag = "throw" THEN Val(<<>>)
               ELSE LET text == to_string(decrypted.v)
                    IN IF text.tag = "throw" THEN Val(<<>>) ELSE text

\* Variant: the authenticator is stripped without being verified
decryptMessage_Unauthenticated(encryptedMessage, key) ==
    LET data == from_base64(encryptedMessage)
    IN IF data.tag = "throw" THEN Null
       ELSE IF Len(data.v) = 0 \/ data.v[1] # MESSAGE_VERSION THEN Null
       ELSE LET nonce == Slice(data.v, 2, 1 + NONCEBYTES)
                ciphertext == SliceFrom(data.v, 2 + NONCEBYTES)
                ct == SliceFrom(ciphertext, MACBYTES + 1)
                decrypted == IF Len(ciphertext) < MACBYTES THEN Throw
                             ELSE Val([i \in 1..Len(ct) |->
                                          (ct[i] + 256 - Stream(key, nonce, i)) % 256])
            IN IF decrypted.tag = "throw" THEN Null
               ELSE LET text == to_string(decrypted.v)
                    IN IF text.tag = "throw" THEN Null ELSE text

decryptMessage(encryptedMessage, key) ==
    LET data == from_base64(encryptedMessage)
    IN IF data.tag = "throw" THEN Null
       ELSE IF Len(data.v) = 0 \/ data.v[1] # MESSAGE_VERSION THEN Null
       ELSE LET nonce == Slice(data.v, 2, 1 + NONCEBYTES)
                ciphertext == SliceFrom(data.v, 2 + NONCEBYTES)
                decrypted == crypto_secretbox_open_easy(ciphertext, nonce, key)
            IN IF decrypted.tag = "throw" THEN Null
               ELSE LET text == to_string(decrypted.v)
                    IN IF text.tag = "throw" THEN Null ELSE text

cryptoVars == <<pc, box, msg, out, edit>>
deriveVars == <<authMethod, claims, calls>>
hookVars == <<session, hook, runs>>
inviteVars == <<room, inviter, invitee, inv, txs>>
pageVars == <<sodiumReady, chat, rawMessages, sent, early>>
clientVars == <<storage, attempts, keyHook, sponsored, cache>>

\* ------------------------------------------------------------------------
\* Inputs
\* ------------------------------------------------------------------------
RECURSIVE SeqsUpTo(_, _)
SeqsUpTo(S, n) ==
    IF n = 0 THEN {<<>>}
    ELSE SeqsUpTo(S, n - 1) \cup {Append(s, x) : s \in SeqsUpTo(S, n - 1), x \in S}

\* 'a', e-acute, a high and a low surrogate, the byte-order mark
CodeUnits == {97, 233, 55296, 56320, 65279}
Messages == SeqsUpTo(CodeUnits, MaxMsgLen)

\* No unpaired surrogate
RECURSIVE WellFormedFrom(_, _)
WellFormedFrom(s, i) ==
    IF i > Len(s) THEN TRUE
    ELSE IF IsHigh(s[i]) THEN i < Len(s) /\ IsLow(s[i + 1]) /\ WellFormedFrom(s, i + 2)
    ELSE ~IsLow(s[i]) /\ WellFormedFrom(s, i + 1)
WellFormed(s) == WellFormedFrom(s, 1)
StartsWithBOM(s) == Len(s) > 0 /\ s[1] = 65279

Signatures == {<<1, 2>>, <<3>>}
SampleClaims ==
    {[sub |-> Str(<<97>>), iss |-> Str(<<97>>), aud |-> Str(<<97>>), userSalt |-> Str(<<97>>)],
     [sub |-> Str(<<98>>), iss |-> Str(<<97>>), aud |-> Str(<<97>>), userSalt |-> Str(<<97>>)]}
Keypairs == {deriveEncryptionKeypair(s) : s \in Signatures}
                \cup {deriveEncryptionKeypairFromZkLogin(c) : c \in SampleClaims}

SymKeys == randombytes_buf(KEYBYTES)
Nonces == randombytes_buf(NONCEBYTES)
\* the ephemeral secret keys crypto_box_seal can draw
EphemeralKeys == {crypto_box_seed_keypair(s).privateKey : s \in randombytes_buf(KEYBYTES)}
\* plaintexts given to the sealed box: room keys and two short strings
SealData == SymKeys \cup {<<>>, <<7>>}

Deltas == {1, 128}
TamperAt(b, i, d) == [b EXCEPT ![i] = (@ + d) % 256]

\* Keys of a wrong length
BadKeys == {<<>>, [i \in 1..(KEYBYTES - 1) |-> 9]}
Fill(n) == [i \in 1..n |-> 7]
\* A character outside the base64 alphabet
NOT_BASE64 == 65

\* Strings handed to decryptMessage that no encryptMessage call produced:
\* the empty string, texts that are not base64, envelopes of 1, 24, 25, 40
\* and 41 bytes, an envelope of another version, and one valid envelope
ForeignTexts ==
    {<<>>, <<0>>, <<0, 0, 0, NOT_BASE64>>, <<0, PADCHAR, PADCHAR, PADCHAR>>}
        \cup {to_base64(<<MESSAGE_VERSION>> \o Fill(n)) :
                  n \in {0, NONCEBYTES - 1, NONCEBYTES, NONCEBYTES + MACBYTES - 1,
                         NONCEBYTES + MACBYTES}}
        \cup {to_base64(<<MESSAGE_VERSION + 1>> \o Fill(NONCEBYTES + MACBYTES))}
        \cup {encryptMessage(<<97>>, key, nonce).v :
                  key \in SymKeys, nonce \in randombytes_buf(NONCEBYTES)}

\* Byte strings handed to decryptWithSecretKey that are not sealed boxes:
\* empty, one byte short of the overhead, the bare overhead, a full length
ForeignRecords ==
    {Fill(n) : n \in {0, KEYBYTES + MACBYTES - 1, KEYBYTES + MACBYTES,
                      KEYBYTES + MACBYTES + KEYBYTES}}

NoClaims == [sub |-> Undefined, iss |-> Undefined, aud |-> Undefined, userSalt |-> Undefined]
NoKeypair == [publicKey |-> <<>>, secretKey |-> <<>>]
NoBox == [data |-> <<>>, kp |-> NoKeypair, record |-> <<>>, opener |-> <<>>]
NoMsg == [message |-> <<>>, key |-> <<>>, nonce |-> <<>>, envelope |-> <<>>, opener |-> <<>>]

\* ------------------------------------------------------------------------
\* Crypto core: every exported function called on sampled inputs
\* ------------------------------------------------------------------------
DeriveIdle ==
    /\ authMethod = "none"
    /\ claims = NoClaims
    /\ calls = <<>>

\* The aud claim of a JWT: a string (or absent), or an array of strings
AudString(x) == [arr |-> FALSE, str |-> x, elems |-> <<>>]
AudArray(xs) == [arr |-> TRUE, str |-> Undefined, elems |-> xs]
NoPayload == [sub |-> Undefined, iss |-> Undefined, aud |-> AudString(Undefined)]
NoSession == [jwt |-> "none", payload |-> NoPayload]
NoHookState == [keypair |-> Null, publicKeyBase64 |-> Null, isLoading |-> FALSE, error |-> "null"]
NoRun == [pc |-> "idle", claims |-> NoClaims, keygen |-> FALSE, ret |-> Null, error |-> "null"]

HookIdle ==
    /\ session = NoSession
    /\ hook = NoHookState
    /\ runs = [r \in 1..MaxRuns |-> NoRun]

NoProfileKey == [kind |-> "absent", bytes |-> <<>>, text |-> <<>>]
NoInvite == [entry |-> "none", pc |-> "idle", secretKey |-> <<>>, parsed |-> Null,
             fetches |-> 0, fetchError |-> FALSE, fetched |-> Null, ops |-> <<>>,
             ret |-> Null, success |-> FALSE, error |-> "none"]

InviteIdle ==
    /\ room = [key |-> <<>>, record |-> Null]
    /\ inviter = NoKeypair
    /\ invitee = [kp |-> NoKeypair, chatIndexId |-> FALSE, publicKey |-> NoProfileKey]
    /\ inv = NoInvite
    /\ txs = <<>>

NoChat == [isEncrypted |-> FALSE, key |-> <<>>, roomKey |-> Null, isDecrypted |-> FALSE,
           error |-> FALSE]

PageIdle ==
    /\ sodiumReady = FALSE
    /\ chat = NoChat
    /\ rawMessages = <<>>
    /\ sent = <<>>
    /\ early = {}

NoKeyState == [roomKey |-> Null, isLoading |-> FALSE, error |-> "null", isDecrypted |-> FALSE]
NoDecrypt == [pc |-> "idle", chatId |-> "null"]
NoKeyHook == [chatId |-> "null", user |-> NoKeypair, ledger |-> <<>>, state |-> NoKeyState,
              effect |-> FALSE, calls |-> [r \in 1..MaxRuns |-> NoDecrypt]]
NoSponsorData == [txBytes |-> Undefined, digest |-> Undefined]
NoExecute == [pc |-> "idle", log |-> <<>>, sponsorOk |-> FALSE, sponsorData |-> NoSponsorData,
              ret |-> Null, isPending |-> FALSE]
NoSponsored == [isPending |-> FALSE, error |-> "null",
                calls |-> [r \in 1..MaxRuns |-> NoExecute]]
NoCache == [count |-> 0, list |-> <<>>, lastCount |-> 0, pending |-> {}, applied |-> {}]

ClientIdle ==
    /\ storage = {}
    /\ attempts = <<>>
    /\ keyHook = NoKeyHook
    /\ sponsored = NoSponsored
    /\ cache = NoCache

CryptoInit ==
    /\ pc = "idle"
    /\ box = NoBox
    /\ msg = NoMsg
    /\ out = Null
    /\ edit = "none"

EncryptWithPublicKey ==
    /\ pc = "idle"
    /\ \E data \in SealData, kp \in Keypairs, esk \in EphemeralKeys :
          box' = [data |-> data, kp |-> kp,
                  record |-> encryptWithPublicKey(data, kp.publicKey, esk).v,
                  opener |-> <<>>]
    /\ pc' = "sealed"
    /\ UNCHANGED <<msg, out, edit>>

\* One byte of the stored record changes, or the record loses or gains a byte
TamperRecord ==
    /\ pc = "sealed"
    /\ edit = "none"
    /\ \/ \E i \in 1..Len(box.record), d \in Deltas :
             box' = [box EXCEPT !.record = TamperAt(@, i, d)]
       \/ box' = [box EXCEPT !.record = Slice(@, 1, Len(@) - 1)]
       \/ box' = [box EXCEPT !.record = Append(@, 0)]
    /\ edit' = "record"
    /\ UNCHANGED <<pc, msg, out>>

DecryptWithSecretKey ==
    /\ pc = "sealed"
    /\ \E kp \in Keypairs :
          /\ box' = [box EXCEPT !.opener = kp.secretKey]
          /\ out' = decryptWithSecretKey(box.record, kp.secretKey)
    /\ pc' = "opened"
    /\ UNCHANGED <<msg, edit>>

EncryptMessage ==
    /\ pc = "idle"
    /\ \E message \in Messages, key \in SymKeys, nonce \in randombytes_buf(NONCEBYTES) :
          msg' = [message |-> message, key |-> key, nonce |-> nonce,
                  envelope |-> encryptMessage(message, key, nonce).v, opener |-> <<>>]
    /\ pc' = "encrypted"
    /\ UNCHANGED <<box, out, edit>>

Decoded(envelope) == from_base64(envelope).v

\* Byte 0 of the envelope is replaced by another version number
TamperVersion ==
    /\ pc = "encrypted"
    /\ edit = "none"
    /\ \E ver \in (0..255) \ {MESSAGE_VERSION} :
          msg' = [msg EXCEPT !.envelope = to_base64([Decoded(@) EXCEPT ![1] = ver])]
    /\ edit' = "version"
    /\ UNCHANGED <<pc, box, out>>

\* One byte of the nonce (bytes 1..24) changes
TamperNonce ==
    /\ pc = "encrypted"
    /\ edit = "none"
    /\ \E i \in 2..(1 + NONCEBYTES), d \in Deltas :
          msg' = [msg EXCEPT !.envelope = to_base64(TamperAt(Decoded(@), i, d))]
    /\ edit' = "nonce"
    /\ UNCHANGED <<pc, box, out>>

\* The ciphertext region (bytes 25 to end) changes: one byte, or its length
TamperCiphertext ==
    /\ pc = "encrypted"
    /\ edit = "none"
    /\ \/ \E i \in (2 + NONCEBYTES)..Len(Decoded(msg.envelope)), d \in Deltas :
             msg' = [msg EXCEPT !.envelope = to_base64(TamperAt(Decoded(@), i, d))]
       \/ msg' = [msg EXCEPT !.envelope =
                      to_base64(Slice(Decoded(@), 1, Len(Decoded(@)) - 1))]
       \/ msg' = [msg EXCEPT !.envelope = to_base64(Append(Decoded(@), 0))]
    /\ edit' = "cipher"
    /\ UNCHANGED <<pc, box, out>>

DecryptMessage ==
    /\ pc = "encrypted"
    /\ \E key \in SymKeys :
          /\ msg' = [msg EXCEPT !.opener = key]
          /\ out' = decryptMessage(msg.envelope, key)
    /\ pc' = "decrypted"
    /\ UNCHANGED <<box, edit>>

\* decryptWithSecretKey on a byte string that is not a sealed box, or with a
\* secret key of a wrong length
DecryptForeignRecord ==
    /\ pc = "idle"
    /\ \E record \in ForeignRecords \cup {encryptWithPublicKey(data, kp.publicKey, esk).v :
                          data \in {<<7>>}, kp \in Keypairs, esk \in EphemeralKeys},
          secretKey \in {kp.secretKey : kp \in Keypairs} \cup BadKeys :
          /\ box' = [NoBox EXCEPT !.record = record, !.opener = secretKey]
          /\ out' = decryptWithSecretKey(record, secretKey)
    /\ pc' = "opened"
    /\ edit' = "foreign"
    /\ UNCHANGED msg

\* decryptMessage on an arbitrary string, or with a key of a wrong length
DecryptForeignMessage ==
    /\ pc = "idle"
    /\ \E text \in ForeignTexts, key \in SymKeys \cup BadKeys :
          /\ msg' = [NoMsg EXCEPT !.envelope = text, !.opener = key]
          /\ out' = decryptMessage(text, key)
    /\ pc' = "decrypted"
    /\ edit' = "foreign"
    /\ UNCHANGED box

cryptoOthers == <<deriveVars, hookVars, inviteVars, pageVars, clientVars>>

Next ==
    \/ EncryptWithPublicKey /\ UNCHANGED cryptoOthers
    \/ TamperRecord /\ UNCHANGED cryptoOthers
    \/ DecryptWithSecretKey /\ UNCHANGED cryptoOthers
    \/ EncryptMessage /\ UNCHANGED cryptoOthers
    \/ TamperVersion /\ UNCHANGED cryptoOthers
    \/ TamperNonce /\ UNCHANGED cryptoOthers
    \/ TamperCiphertext /\ UNCHANGED cryptoOthers
    \/ DecryptMessage /\ UNCHANGED cryptoOthers
    \/ DecryptForeignRecord /\ UNCHANGED cryptoOthers
    \/ DecryptForeignMessage /\ UNCHANGED cryptoOthers

vars == <<pc, box, msg, out, edit, authMethod, claims, calls, session, hook, runs,
          room, inviter, invitee, inv, txs, sodiumReady, chat, rawMessages, sent, early,
          storage, attempts, keyHook, sponsored, cache>>

Init == CryptoInit /\ DeriveIdle /\ HookIdle /\ InviteIdle /\ PageIdle /\ ClientIdle
Spec == Init /\ [][Next]_vars

\* ------------------------------------------------------------------------
\* Properties of the crypto core
\* ------------------------------------------------------------------------

\* C2: a record sealed to the public key of a derived keypair opens, with
\* the secret key alone, to the plaintext that was sealed.
SealedRoundTrip ==
    (pc = "opened" /\ edit = "none" /\ box.opener = box.kp.secretKey)
        => out = Val(box.data)
SealedRoundTripWitness ==
    /\ pc = "opened" /\ edit = "none" /\ box.opener = box.kp.secretKey
    /\ Len(box.data) = KEYBYTES /\ out = Val(box.data)

\* C3 as stated: every message string decrypts to itself.
MessageRoundTripAll ==
    (pc = "decrypted" /\ edit = "none" /\ msg.opener = msg.key)
        => out = Val(msg.message)
\* C3 amended: a well-formed message that does not start with U+FEFF
\* decrypts to itself under the key it was encrypted with, whatever the nonce.
MessageRoundTrip ==
    (pc = "decrypted" /\ edit = "none" /\ msg.opener = msg.key
        /\ WellFormed(msg.message) /\ ~StartsWithBOM(msg.message))
        => out = Val(msg.message)
MessageRoundTripWitness ==
    /\ pc = "decrypted" /\ edit = "none" /\ msg.opener = msg.key
    /\ WellFormed(msg.message) /\ Len(msg.message) = 2 /\ out = Val(msg.message)

\* C9: an envelope whose byte 0 is not the supported version decrypts to
\* null, with the right key and an intact nonce and ciphertext.
VersionRejection ==
    (pc = "decrypted" /\ edit = "version") => out = Null
VersionRejectionWitness ==
    /\ pc = "decrypted" /\ edit = "version" /\ msg.opener = msg.key
    /\ out = Null /\ Decoded(msg.envelope)[1] = 2

\* C10: a modified sealed record, and an envelope with a modified ciphertext
\* region, decrypt to null under every key.
TamperRejection ==
    /\ (pc = "opened" /\ edit = "record") => out = Null
    /\ (pc = "decrypted" /\ edit = "cipher") => out = Null
TamperRejectionWitness ==
    \/ pc = "opened" /\ edit = "record" /\ box.opener = box.kp.secretKey /\ out = Null
          /\ Len(box.record) = KEYBYTES + KEYBYTES + MACBYTES
    \/ pc = "decrypted" /\ edit = "cipher" /\ msg.opener = msg.key /\ out = Null

\* C11: an envelope decrypted with a 32-byte key other than the one it was
\* encrypted with gives null, for every message and every nonce.
WrongKeyFails ==
    (pc = "decrypted" /\ edit = "none" /\ Len(msg.opener) = KEYBYTES
        /\ msg.opener # msg.key) => out = Null
WrongKeyFailsWitness ==
    /\ pc = "decrypted" /\ edit = "none" /\ Len(msg.opener) = KEYBYTES
    /\ msg.opener # msg.key /\ Len(msg.message) > 0 /\ out = Null

\* The input of decryptMessage does not decode, decodes to fewer than 25
\* bytes, or carries another version
Undecodable(text) ==
    LET data == from_base64(text)
    IN \/ data.tag = "throw"
       \/ Len(data.v) < 1 + NONCEBYTES
       \/ data.v[1] # MESSAGE_VERSION

\* C12: decryptMessage returns a string or null and never throws; an input
\* that does not decode, is shorter than 25 bytes, has another version, or
\* fails authentication (modified nonce or ciphertext, wrong key, key of a
\* wrong length) gives null.
DecryptMessageSingleFailure ==
    pc = "decrypted" =>
        /\ out.tag \in {"val", "null"}
        /\ (Undecodable(msg.envelope) \/ edit \in {"nonce", "cipher"}
               \/ msg.opener \in BadKeys) => out = Null
DecryptMessageSingleFailureWitness ==
    /\ pc = "decrypted" /\ edit = "foreign" /\ out = Null
    /\ from_base64(msg.envelope).tag = "val"
    /\ Len(from_base64(msg.envelope).v) = NONCEBYTES
    /\ Len(msg.opener) = KEYBYTES

\* C13: decryptWithSecretKey returns the plaintext or null and never throws;
\* a record sealed to another key, a modified record, a byte string that is
\* not a sealed box (down to the empty one) and a secret key of a wrong
\* length give null.
DecryptWithSecretKeyFailsByValue ==
    pc = "opened" =>
        /\ out.tag \in {"val", "null"}
        /\ (edit = "record" \/ box.record \in ForeignRecords \/ box.opener \in BadKeys
               \/ (edit = "none" /\ box.opener # box.kp.secretKey)) => out = Null
DecryptWithSecretKeyFailsByValueWitness ==
    /\ pc = "opened" /\ edit = "foreign" /\ out = Null
    /\ Len(box.record) = KEYBYTES + MACBYTES - 1
    /\ Len(box.opener) = KEYBYTES

\* C20: a record sealed under a 32-byte public key is 48 bytes longer than
\* its plaintext, so a wrapped 32-byte room key is 80 bytes long.
WrappedKeyLength ==
    (pc \in {"sealed", "opened"} /\ edit = "none" /\ box.kp # NoKeypair) =>
        /\ Len(box.record) = Len(box.data) + SEALBYTES
        /\ box.data \in SymKeys => Len(box.record) = 80
WrappedKeyLengthWitness ==
    /\ pc = "sealed" /\ edit = "none"
    /\ box.data \in SymKeys /\ Len(box.kp.publicKey) = KEYBYTES
    /\ Len(box.record) = 80

\* ------------------------------------------------------------------------
\* Key derivation: the two derivation functions called repeatedly
\* ------------------------------------------------------------------------

\* 'a', 'a' followed by NUL, an unpaired high and an unpaired low surrogate
ClaimStrings == {<<97>>, <<97, 0>>, <<55296>>, <<56320>>}
ClaimFields == {"sub", "iss", "aud", "userSalt"}
ClaimTuples == [ClaimFields -> {Str(s) : s \in ClaimStrings}]
WalletSignatures == Signatures \cup {<<1, 2, 0>>}

DeriveInit ==
    /\ authMethod \in {"wallet", "zklogin"}
    /\ claims \in IF authMethod = "wallet" THEN {NoClaims} ELSE ClaimTuples
    /\ calls = <<>>
    /\ CryptoInit
    /\ ClientIdle
    /\ PageIdle
    /\ HookIdle
    /\ InviteIdle

\* wallet user: signs the fixed message, the signature is the input
DeriveFromSignature ==
    /\ authMethod = "wallet"
    /\ Len(calls) < MaxCalls
    /\ \E signature \in WalletSignatures :
          calls' = Append(calls, [kind |-> "signature", signature |-> signature,
                                  claims |-> NoClaims,
                                  keypair |-> deriveEncryptionKeypair(signature)])
    /\ UNCHANGED <<authMethod, claims>>

\* zkLogin user: the four claims are the input
DeriveFromClaims ==
    /\ authMethod = "zklogin"
    /\ Len(calls) < MaxCalls
    /\ calls' = Append(calls, [kind |-> "claims", signature |-> <<>>, claims |-> claims,
                               keypair |-> deriveEncryptionKeypairFromZkLogin(claims)])
    /\ UNCHANGED <<authMethod, claims>>

\* Between two derivations one of the four claims takes another value
ChangeClaim ==
    /\ authMethod = "zklogin"
    /\ calls # <<>>
    /\ Len(calls) < MaxCalls
    /\ claims = calls[Len(calls)].claims
    /\ \E f \in ClaimFields, s \in ClaimStrings :
          /\ claims[f] # Str(s)
          /\ claims' = [claims EXCEPT ![f] = Str(s)]
    /\ UNCHANGED <<authMethod, calls>>

DeriveNext ==
    \/ DeriveFromSignature /\ UNCHANGED <<cryptoVars, hookVars, inviteVars, pageVars, clientVars>>
    \/ DeriveFromClaims /\ UNCHANGED <<cryptoVars, hookVars, inviteVars, pageVars, clientVars>>
    \/ ChangeClaim /\ UNCHANGED <<cryptoVars, hookVars, inviteVars, pageVars, clientVars>>

DeriveSpec == DeriveInit /\ [][DeriveNext]_vars

\* Two claim tuples that differ in exactly one field
OneFieldChanged(c, d) == Cardinality({f \in ClaimFields : c[f] # d[f]}) = 1

\* What HKDF works on: the encoded keying material, the HMAC key made of
\* the encoded salt parameter, the encoded info
EffectiveInputs(c) == <<TextEncode(c.userSalt), HmacKey(SaltParameter(c)), TextEncode(c.sub)>>

ClaimCalls == {i \in DOMAIN calls : calls[i].kind = "claims"}
SignatureCalls == {i \in DOMAIN calls : calls[i].kind = "signature"}

\* C4 as stated: the same claims give the same keypair on every call, and a
\* change of any one field gives another keypair.
ClaimsSensitiveToEveryField ==
    \A i, j \in ClaimCalls :
        /\ calls[i].claims = calls[j].claims => calls[i].keypair = calls[j].keypair
        /\ OneFieldChanged(calls[i].claims, calls[j].claims)
              => calls[i].keypair # calls[j].keypair
\* C4 amended: the same claims give the same keypair on every call, and a
\* change of one field gives another keypair whenever it changes what HKDF
\* works on (the UTF-8 encoding of sub or userSalt, the HMAC key block of the
\* encoded salt parameter).
ClaimsDeterministicAndSensitive ==
    \A i, j \in ClaimCalls :
        /\ calls[i].claims = calls[j].claims => calls[i].keypair = calls[j].keypair
        /\ (OneFieldChanged(calls[i].claims, calls[j].claims)
              /\ EffectiveInputs(calls[i].claims) # EffectiveInputs(calls[j].claims))
              => calls[i].keypair # calls[j].keypair
ClaimsDeterministicAndSensitiveWitness ==
    /\ Len(calls) = 2
    /\ calls[1].kind = "claims" /\ calls[2].kind = "claims"
    /\ calls[1].claims.sub # calls[2].claims.sub
    /\ OneFieldChanged(calls[1].claims, calls[2].claims)
    /\ calls[1].keypair # calls[2].keypair

IssuerAudienceStrings == {<<97>>, <<97, COLON>>, <<COLON, 97>>, <<COLON>>}

\* A zkLogin session whose issuer and audience are drawn from these strings
SeparationInit ==
    /\ authMethod = "zklogin"
    /\ \E iss, aud \in IssuerAudienceStrings :
          claims = [sub |-> Str(<<97>>), iss |-> Str(iss), aud |-> Str(aud),
                    userSalt |-> Str(<<97>>)]
    /\ calls = <<>>
    /\ CryptoInit
    /\ ClientIdle
    /\ PageIdle
    /\ HookIdle
    /\ InviteIdle

\* Between two derivations the user signs in again: the issuer or the
\* audience of the session takes another value, any number of times
ChangeIssuerOrAudience ==
    /\ calls # <<>>
    /\ Len(calls) < MaxCalls
    /\ \E f \in {"iss", "aud"}, s \in IssuerAudienceStrings :
          /\ claims[f] # Str(s)
          /\ claims' = [claims EXCEPT ![f] = Str(s)]
    /\ UNCHANGED <<authMethod, calls>>

SeparationNext ==
    \/ DeriveFromClaims /\ UNCHANGED <<cryptoVars, hookVars, inviteVars, pageVars, clientVars>>
    \/ ChangeIssuerOrAudience
          /\ UNCHANGED <<cryptoVars, hookVars, inviteVars, pageVars, clientVars>>

SeparationSpec == SeparationInit /\ [][SeparationNext]_vars

\* The three parameters deriveEncryptionKeypairFromZkLogin passes to hkdf
HkdfInputs(c) == <<TextEncode(c.userSalt), SaltParameter(c), TextEncode(c.sub)>>

\* C30: two claim tuples that differ in issuer or in audience are given
\* different salt parameters, so two distinct claim tuples are never given
\* the same HKDF inputs (keying material, salt, info).
SaltSeparatesIssuerFromAudience ==
    \A i, j \in ClaimCalls :
        /\ (calls[i].claims.iss # calls[j].claims.iss
               \/ calls[i].claims.aud # calls[j].claims.aud)
              => SaltParameter(calls[i].claims) # SaltParameter(calls[j].claims)
        /\ calls[i].claims # calls[j].claims
              => HkdfInputs(calls[i].claims) # HkdfInputs(calls[j].claims)

\* ------------------------------------------------------------------------
\* lib/zklogin and hooks/useZkLoginKeypair
\* ------------------------------------------------------------------------

\* JavaScript truthiness of a string-or-undefined value
Truthy(x) == x.def /\ x.s # <<>>
\* of the aud claim: an array is truthy whatever it holds
TruthyAud(aud) == IF aud.arr THEN TRUE ELSE Truthy(aud.str)

\* getZkLoginSessionData: null without a JWT, with an undecodable JWT or
\* with a falsy sub, iss or aud; otherwise the claims, aud[0] for an array
getZkLoginSessionData(sess) ==
    IF sess.jwt # "ok" THEN Null
    ELSE IF ~Truthy(sess.payload.sub) \/ ~Truthy(sess.payload.iss)
            \/ ~TruthyAud(sess.payload.aud) THEN Null
    ELSE Val([sub |-> sess.payload.sub,
              iss |-> sess.payload.iss,
              aud |-> IF sess.payload.aud.arr
                      THEN (IF Len(sess.payload.aud.elems) = 0 THEN Undefined
                            ELSE sess.payload.aud.elems[1])
                      ELSE sess.payload.aud.str])

\* fetchUserSalt: throws on an HTTP error and on a response without userSalt
SaltResponses ==
    {[ok |-> FALSE, userSalt |-> Undefined],
     [ok |-> TRUE, userSalt |-> Undefined],
     [ok |-> TRUE, userSalt |-> Str(<<>>)],
     [ok |-> TRUE, userSalt |-> Str(<<115>>)]}
fetchUserSalt(response) ==
    IF ~response.ok THEN Throw
    ELSE IF ~Truthy(response.userSalt) THEN Throw
    ELSE Val(response.userSalt)

ClaimValues == {Undefined, Str(<<>>), Str(<<97>>)}
AudValues ==
    {AudString(x) : x \in ClaimValues}
        \cup {AudArray(<<>>), AudArray(<<Str(<<>>)>>), AudArray(<<Str(<<97>>)>>),
              AudArray(<<Str(<<>>), Str(<<97>>)>>)}
Payloads == [sub : ClaimValues, iss : ClaimValues, aud : AudValues]
Sessions ==
    {NoSession, [jwt |-> "garbled", payload |-> NoPayload]}
        \cup {[jwt |-> "ok", payload |-> p] : p \in Payloads}

HookInit ==
    /\ authMethod \in {"zklogin", "wallet"}
    /\ session \in IF authMethod = "zklogin" THEN Sessions ELSE {NoSession}
    /\ hook = NoHookState
    /\ runs = [r \in 1..MaxRuns |-> NoRun]
    /\ claims = NoClaims
    /\ calls = <<>>
    /\ CryptoInit
    /\ ClientIdle
    /\ PageIdle
    /\ InviteIdle

isZkLogin == authMethod = "zklogin"

\* the catch block of derive()
DeriveFailed(r, message) ==
    /\ hook' = [hook EXCEPT !.isLoading = FALSE, !.error = message]
    /\ runs' = [runs EXCEPT ![r].pc = "returned", ![r].ret = Null, ![r].error = message]

\* derive() is called: up to the first await
DeriveStart(r) ==
    /\ runs[r].pc = "idle"
    /\ IF ~isZkLogin
       THEN /\ hook' = [hook EXCEPT !.error = "Not connected with zkLogin"]
            /\ runs' = [runs EXCEPT ![r].pc = "returned", ![r].ret = Null,
                                    ![r].error = "Not connected with zkLogin"]
       ELSE /\ hook' = [hook EXCEPT !.isLoading = TRUE, !.error = "null"]
            /\ runs' = [runs EXCEPT ![r].pc = "initCrypto"]
    /\ UNCHANGED <<authMethod, session>>

\* await initCrypto() resumes
DeriveReady(r) ==
    /\ runs[r].pc = "initCrypto"
    /\ runs' = [runs EXCEPT ![r].pc = "session"]
    /\ UNCHANGED <<authMethod, session, hook>>

\* await getZkLoginSessionData(currentWallet) resumes, then the expiry test
DeriveSession(r) ==
    /\ runs[r].pc = "session"
    /\ LET sessionData == getZkLoginSessionData(session)
       IN IF sessionData.tag = "null"
          THEN DeriveFailed(r, "Could not get zkLogin session data. Try reconnecting.")
          ELSE \E expired \in BOOLEAN :
                  IF expired
                  THEN DeriveFailed(r, "JWT has expired. Please reconnect.")
                  ELSE /\ runs' = [runs EXCEPT ![r].pc = "salt",
                                      ![r].claims = [sub |-> sessionData.v.sub,
                                                     iss |-> sessionData.v.iss,
                                                     aud |-> sessionData.v.aud,
                                                     userSalt |-> Undefined]]
                       /\ hook' = hook
    /\ UNCHANGED <<authMethod, session>>

\* await fetchUserSalt(jwt) resumes
DeriveSalt(r) ==
    /\ runs[r].pc = "salt"
    /\ \E response \in SaltResponses :
          LET salt == fetchUserSalt(response)
          IN IF salt.tag = "throw"
             THEN DeriveFailed(r, "salt")
             ELSE /\ runs' = [runs EXCEPT ![r].pc = "derive", ![r].claims.userSalt = salt.v]
                  /\ hook' = hook
    /\ UNCHANGED <<authMethod, session>>

\* await deriveEncryptionKeypairFromZkLogin(claims) resumes, setState, return
DeriveKeypair(r) ==
    /\ runs[r].pc = "derive"
    /\ LET keypair == deriveEncryptionKeypairFromZkLogin(runs[r].claims)
           publicKeyBase64 == to_base64(keypair.publicKey)
       IN /\ hook' = [keypair |-> Val(keypair), publicKeyBase64 |-> Val(publicKeyBase64),
                      isLoading |-> FALSE, error |-> "null"]
          /\ runs' = [runs EXCEPT ![r].pc = "returned", ![r].keygen = TRUE,
                                  ![r].ret = Val(keypair)]
    /\ UNCHANGED <<authMethod, session>>

\* The connection stops being zkLogin: the effect runs clear()
Disconnect ==
    /\ isZkLogin
    /\ authMethod' = "none"
    /\ hook' = NoHookState
    /\ UNCHANGED <<session, runs>>

hookOthers == <<cryptoVars, claims, calls, inviteVars, pageVars, clientVars>>

HookNext ==
    \/ \E r \in 1..MaxRuns : DeriveStart(r) /\ UNCHANGED hookOthers
    \/ \E r \in 1..MaxRuns : DeriveReady(r) /\ UNCHANGED hookOthers
    \/ \E r \in 1..MaxRuns : DeriveSession(r) /\ UNCHANGED hookOthers
    \/ \E r \in 1..MaxRuns : DeriveSalt(r) /\ UNCHANGED hookOthers
    \/ \E r \in 1..MaxRuns : DeriveKeypair(r) /\ UNCHANGED hookOthers
    \/ Disconnect /\ UNCHANGED hookOthers

HookSpec == HookInit /\ [][HookNext]_vars

\* A claim of the JWT is missing: sub, iss or aud absent or empty, the aud
\* array empty or with an empty first element
MissingClaim(p) ==
    \/ ~Truthy(p.sub)
    \/ ~Truthy(p.iss)
    \/ IF p.aud.arr THEN Len(p.aud.elems) = 0 \/ ~Truthy(p.aud.elems[1])
       ELSE ~Truthy(p.aud.str)

\* C6: with a missing claim, derive() never reaches keypair generation and
\* returns with an error; a keypair is only derived from four non-empty
\* values.
DeriveAbortsOnMissingClaim ==
    \A r \in 1..MaxRuns :
        /\ (session.jwt # "ok" \/ MissingClaim(session.payload))
              => /\ ~runs[r].keygen
                 /\ runs[r].pc # "derive"
                 /\ runs[r].pc = "returned" => (runs[r].ret = Null /\ runs[r].error # "null")
        /\ runs[r].keygen
              => \A f \in ClaimFields : Truthy(runs[r].claims[f])

\* ------------------------------------------------------------------------
\* lib/sui/invite, hooks/useInviteMember, hooks/useEncryption: the invite
\* A derive() call has started and not yet returned
InFlight(r) == runs[r].pc \notin {"idle", "returned"}

\* C26: once the connection is no longer zkLogin and no derive() call is in
\* flight, the hook holds no keypair and no publicKeyBase64, also when the
\* disconnect came while a call was in flight.
KeypairClearedWithSession ==
    (~isZkLogin /\ \A r \in 1..MaxRuns : ~InFlight(r))
        => hook.keypair = Null /\ hook.publicKeyBase64 = Null

\* C27: isLoading is true whenever at least one derive() call of the hook
\* has started and not yet returned, also when two calls overlap.
LoadingCoversEveryDerivation ==
    (\E r \in 1..MaxRuns : InFlight(r)) => hook.isLoading

\* ------------------------------------------------------------------------

\* parseInt(chunk, 16) stored into a Uint8Array: the value of the leading hex
\* digits of the chunk, NaN (stored as 0) when the first character is none.
\* Characters are base64 digits: A-Z 0..25, a-z 26..51, 0-9 52..61.
HexVal(d) ==
    IF d >= 52 /\ d <= 61 THEN d - 52
    ELSE IF d >= 26 /\ d <= 31 THEN d - 16
    ELSE IF d >= 0 /\ d <= 5 THEN d + 10
    ELSE -1
ParseInt16(chunk) ==
    IF HexVal(chunk[1]) < 0 THEN 0
    ELSE IF Len(chunk) = 1 \/ HexVal(chunk[2]) < 0 THEN HexVal(chunk[1])
    ELSE 16 * HexVal(chunk[1]) + HexVal(chunk[2])
\* publicKey.match(/.{1,2}/g)?.map(byte => parseInt(byte, 16)) || []
HexBytes(t) == [i \in 1..((Len(t) + 1) \div 2) |-> ParseInt16(Slice(t, 2 * i - 1, 2 * i))]

\* parsePublicKey: a string is read as base64, as hex when that throws; an
\* array is taken as it is
parsePublicKey(publicKey) ==
    IF publicKey.kind = "string"
    THEN LET decoded == from_base64(publicKey.text)
         IN IF decoded.tag = "val" THEN decoded ELSE Val(HexBytes(publicKey.text))
    ELSE IF publicKey.kind = "bytes" THEN Val(publicKey.bytes)
    ELSE Null

\* !inviteeProfile.publicKey: an absent key and the empty string
FalsyKey(publicKey) ==
    publicKey.kind = "absent" \/ (publicKey.kind = "string" /\ publicKey.text = <<>>)

\* Variant: the invitee key is cut or zero-padded to 32 bytes before use
prepareEncryptedKeyForInvite_FitKey(encryptedKey, inviterSecretKey, inviteePublicKey, esk) ==
    IF encryptedKey.tag = "null" THEN [ret |-> Null, ops |-> <<>>]
    ELSE LET decryptedMessageKey == decryptWithSecretKey(encryptedKey.v, inviterSecretKey)
         IN IF decryptedMessageKey.tag = "null"
            THEN [ret |-> Null, ops |-> <<"decryptWithSecretKey">>]
            ELSE [ret |-> encryptWithPublicKey(decryptedMessageKey.v,
                                               PadTo(inviteePublicKey, KEYBYTES), esk),
                  ops |-> <<"decryptWithSecretKey", "encryptWithPublicKey">>]

\* Variant: the result of the unwrap is not tested before it is wrapped again
prepareEncryptedKeyForInvite_NoUnwrapCheck(encryptedKey, inviterSecretKey, inviteePublicKey, esk) ==
    IF encryptedKey.tag = "null" THEN [ret |-> Null, ops |-> <<>>]
    ELSE LET decryptedMessageKey == decryptWithSecretKey(encryptedKey.v, inviterSecretKey)
             wrapped == encryptWithPublicKey(decryptedMessageKey.v, inviteePublicKey, esk)
         IN [ret |-> IF wrapped.tag = "throw" THEN Null ELSE wrapped,
             ops |-> <<"decryptWithSecretKey", "encryptWithPublicKey">>]

\* Variant: the record is wrapped for the invitee as fetched, still sealed
prepareEncryptedKeyForInvite_NoUnwrap(encryptedKey, inviterSecretKey, inviteePublicKey, esk) ==
    IF encryptedKey.tag = "null" THEN [ret |-> Null, ops |-> <<>>]
    ELSE LET decryptedMessageKey == decryptWithSecretKey(encryptedKey.v, inviterSecretKey)
         IN IF decryptedMessageKey.tag = "null"
            THEN [ret |-> Null, ops |-> <<"decryptWithSecretKey">>]
            ELSE LET wrapped == encryptWithPublicKey(encryptedKey.v, inviteePublicKey, esk)
                 IN [ret |-> IF wrapped.tag = "throw" THEN Null ELSE wrapped,
                     ops |-> <<"decryptWithSecretKey", "encryptWithPublicKey">>]

\* prepareEncryptedKeyForInvite once getEncryptedKeyFromChatRoom has answered
\* with encryptedKey (null: no record, or the fetch failed); esk is the
\* ephemeral key the sealed box draws.  ret is the value returned, ops the
\* crypto functions called, in order.
prepareEncryptedKeyForInvite(encryptedKey, inviterSecretKey, inviteePublicKey, esk) ==
    IF encryptedKey.tag = "null" THEN [ret |-> Null, ops |-> <<>>]
    ELSE LET decryptedMessageKey == decryptWithSecretKey(encryptedKey.v, inviterSecretKey)
         IN IF decryptedMessageKey.tag = "null"
            THEN [ret |-> Null, ops |-> <<"decryptWithSecretKey">>]
            ELSE LET wrapped == encryptWithPublicKey(decryptedMessageKey.v,
                                                     inviteePublicKey, esk)
                 IN [ret |-> IF wrapped.tag = "throw" THEN Null ELSE wrapped,
                     ops |-> <<"decryptWithSecretKey", "encryptWithPublicKey">>]

\* The forms a profile's public key comes in
BytesKey(b) == [kind |-> "bytes", bytes |-> b, text |-> <<>>]
StringKey(t) == [kind |-> "string", bytes |-> <<>>, text |-> t]
ProfileKeys(pk) ==
    {NoProfileKey, StringKey(<<>>),
     BytesKey(pk), BytesKey(<<>>), BytesKey(Slice(pk, 1, KEYBYTES - 1)), BytesKey(Append(pk, 0)),
     StringKey(to_base64(pk)), StringKey(to_base64(Append(pk, 0))), StringKey(<<26, 27, 28>>)}

\* The inviter's record on the ledger: the room key sealed to the inviter,
\* that record with one byte changed, a record sealed to another member, none
LedgerRecords(key, own, other) ==
    LET esk == CHOOSE e \in EphemeralKeys : TRUE
        sealed == encryptWithPublicKey(key, own.publicKey, esk).v
    IN {Val(sealed), Val(TamperAt(sealed, KEYBYTES + MACBYTES + 1, 1)),
        Val(encryptWithPublicKey(key, other.publicKey, esk).v), Null}

InviteInit ==
    /\ authMethod \in {"zklogin", "none"}
    /\ inviter \in Keypairs
    /\ \E kp \in Keypairs \ {inviter}, chatIndexId \in BOOLEAN :
          /\ \E publicKey \in ProfileKeys(kp.publicKey) :
                invitee = [kp |-> kp, chatIndexId |-> chatIndexId, publicKey |-> publicKey]
          /\ \E key \in SymKeys :
                \E record \in LedgerRecords(key, inviter, kp) :
                   room = [key |-> key, record |-> record]
    /\ inv = NoInvite
    /\ txs = <<>>
    /\ claims = NoClaims
    /\ calls = <<>>
    /\ CryptoInit
    /\ ClientIdle
    /\ PageIdle
    /\ HookIdle

\* return { success: false, error }
InviteFails(entry, error) ==
    inv' = [inv EXCEPT !.entry = entry, !.pc = "done", !.success = FALSE, !.error = error]

\* useInviteMember.inviteToEncryptedRoom is called: the three tests, then it
\* awaits deriveKeypair()
InviteToEncryptedRoom ==
    /\ inv.pc = "idle"
    /\ IF authMethod = "none" THEN InviteFails("inviteToEncryptedRoom", "Not connected")
       ELSE IF ~invitee.chatIndexId
            THEN InviteFails("inviteToEncryptedRoom", "Invitee does not have a chat index")
       ELSE IF FalsyKey(invitee.publicKey)
            THEN InviteFails("inviteToEncryptedRoom", "Invitee does not have a public key")
       ELSE inv' = [inv EXCEPT !.entry = "inviteToEncryptedRoom", !.pc = "deriveKeypair"]
    /\ UNCHANGED <<authMethod, room, inviter, invitee, txs>>

\* deriveKeypair() has answered: the key is parsed and its length tested,
\* then prepareEncryptedKeyForInvite is called and awaits initCrypto()
InviteKeypairDerived ==
    /\ inv.pc = "deriveKeypair"
    /\ \E keypairResult \in {Null, Val(inviter)} :
          IF keypairResult.tag = "null"
          THEN InviteFails(inv.entry, "Failed to derive encryption keypair")
          ELSE LET inviteePublicKey == parsePublicKey(invitee.publicKey)
               IN IF inviteePublicKey.tag = "null"
                  THEN inv' = [inv EXCEPT !.pc = "done", !.error = "Invalid invitee public key",
                                          !.ops = Append(@, "deriveKeypair")]
                  ELSE IF Len(inviteePublicKey.v) # KEYBYTES
                  THEN inv' = [inv EXCEPT !.pc = "done", !.error = "Invalid public key length",
                                          !.parsed = inviteePublicKey,
                                          !.ops = Append(@, "deriveKeypair")]
                  ELSE inv' = [inv EXCEPT !.pc = "initCrypto", !.parsed = inviteePublicKey,
                                          !.secretKey = keypairResult.v.secretKey,
                                          !.ops = Append(@, "deriveKeypair")]
    /\ UNCHANGED <<authMethod, room, inviter, invitee, txs>>

\* useInviteToEncryptedChat.prepareInvite is called with the inviter's
\* keypair: it awaits initCrypto()
PrepareInvite ==
    /\ inv.pc = "idle"
    /\ inv' = [inv EXCEPT !.entry = "prepareInvite", !.pc = "prepareInvite",
                          !.secretKey = inviter.secretKey]
    /\ UNCHANGED <<authMethod, room, inviter, invitee, txs>>

\* prepareInvite parses the key and tests it, then calls
\* prepareEncryptedKeyForInvite
PrepareInviteParsed ==
    /\ inv.pc = "prepareInvite"
    /\ LET inviteePublicKeyBytes == parsePublicKey(invitee.publicKey)
       IN IF inviteePublicKeyBytes.tag = "null" \/ Len(inviteePublicKeyBytes.v) # KEYBYTES
          THEN inv' = [inv EXCEPT !.pc = "done", !.parsed = inviteePublicKeyBytes,
                                  !.ret = Null]
          ELSE inv' = [inv EXCEPT !.pc = "initCrypto", !.parsed = inviteePublicKeyBytes]
    /\ UNCHANGED <<authMethod, room, inviter, invitee, txs>>

\* prepareEncryptedKeyForInvite is called directly with the parsed key bytes
\* of the profile: it awaits initCrypto()
PrepareEncryptedKeyForInvite ==
    /\ inv.pc = "idle"
    /\ parsePublicKey(invitee.publicKey).tag = "val"
    /\ inv' = [inv EXCEPT !.entry = "prepareEncryptedKeyForInvite", !.pc = "initCrypto",
                          !.secretKey = inviter.secretKey,
                          !.parsed = parsePublicKey(invitee.publicKey)]
    /\ UNCHANGED <<authMethod, room, inviter, invitee, txs>>

\* initCrypto() is done: getEncryptedKeyFromChatRoom is called and awaited
PrepareReady ==
    /\ inv.pc = "initCrypto"
    /\ inv' = [inv EXCEPT !.pc = "fetch"]
    /\ UNCHANGED <<authMethod, room, inviter, invitee, txs>>

\* getEncryptedKeyFromChatRoom has answered, with the record of the ledger
\* or, when the request failed, with null: the key is unwrapped and wrapped,
\* prepareEncryptedKeyForInvite returns, and inviteToEncryptedRoom builds the
\* transaction and hands it to executeSponsoredTx
PrepareFetched ==
    /\ inv.pc = "fetch"
    /\ \E failed \in BOOLEAN, esk \in EphemeralKeys :
          LET encryptedKey == IF failed THEN Null ELSE room.record
              r == prepareEncryptedKeyForInvite(encryptedKey, inv.secretKey, inv.parsed.v, esk)
              called == [inv EXCEPT !.fetches = @ + 1, !.fetchError = failed,
                                    !.fetched = encryptedKey, !.ops = @ \o r.ops,
                                    !.ret = r.ret]
          IN IF inv.entry # "inviteToEncryptedRoom"
             THEN inv' = [called EXCEPT !.pc = "done"] /\ txs' = txs
             ELSE IF r.ret.tag = "null"
             THEN /\ inv' = [called EXCEPT !.pc = "done",
                                !.error = "Failed to prepare encrypted key for invitee"]
                  /\ txs' = txs
             ELSE /\ inv' = [called EXCEPT !.pc = "execute"]
                  /\ txs' = Append(txs, [fn |-> "invite_to_chat", encryptedKey |-> r.ret.v])
    /\ UNCHANGED <<authMethod, room, inviter, invitee>>

\* executeSponsoredTx has answered
InviteExecuted ==
    /\ inv.pc = "execute"
    /\ \E success \in BOOLEAN :
          inv' = [inv EXCEPT !.pc = "done", !.success = success,
                             !.error = IF success THEN "none" ELSE "sponsor"]
    /\ UNCHANGED <<authMethod, room, inviter, invitee, txs>>

inviteOthers == <<cryptoVars, claims, calls, hookVars, pageVars, clientVars>>

InviteNext ==
    \/ InviteToEncryptedRoom /\ UNCHANGED inviteOthers
    \/ InviteKeypairDerived /\ UNCHANGED inviteOthers
    \/ PrepareInvite /\ UNCHANGED inviteOthers
    \/ PrepareInviteParsed /\ UNCHANGED inviteOthers
    \/ PrepareEncryptedKeyForInvite /\ UNCHANGED inviteOthers
    \/ PrepareReady /\ UNCHANGED inviteOthers
    \/ PrepareFetched /\ UNCHANGED inviteOthers
    \/ InviteExecuted /\ UNCHANGED inviteOthers

InviteSpec == InviteInit /\ [][InviteNext]_vars

\* The ledger holds the room key sealed to the inviter's public key
LedgerHoldsInviterRecord ==
    /\ room.record.tag = "val"
    /\ \E esk \in EphemeralKeys :
          room.record.v = encryptWithPublicKey(room.key, inviter.publicKey, esk).v

\* prepareEncryptedKeyForInvite has run, with the inviter's secret key and
\* the invitee's own 32-byte public key
PreparedForInvitee ==
    /\ inv.fetches = 1
    /\ inv.secretKey = inviter.secretKey
    /\ inv.parsed = Val(invitee.kp.publicKey)

WrongLengthKeyRejected ==
    (inv.parsed.tag = "val" /\ Len(inv.parsed.v) # KEYBYTES)
        => /\ inv.ret = Null
           /\ txs = <<>>
           /\ ~inv.success
WrongLengthKeyRejectedWitness ==
    /\ inv.pc = "done"
    /\ inv.entry = "prepareEncryptedKeyForInvite"
    /\ inv.parsed.tag = "val" /\ Len(inv.parsed.v) = KEYBYTES + 1
    /\ inv.ops = <<"decryptWithSecretKey", "encryptWithPublicKey">>
    /\ inv.ret = Null

\* The number of times op was called
Count(ops, op) == Cardinality({i \in DOMAIN ops : ops[i] = op})

\* The fetch gave nothing, or the fetched record does not open with the
\* inviter's secret key
UnwrapFailed ==
    /\ inv.fetches = 1
    /\ \/ inv.fetched = Null
       \/ decryptWithSecretKey(inv.fetched.v, inv.secretKey) = Null

\* C8: after a failed fetch or a failed unwrap the call returns null without
\* calling encryptWithPublicKey, the invite ends with success = false, no
\* transaction is built, and neither the fetch nor the unwrap is repeated.
InviteAbortsOnFailedUnwrap ==
    /\ inv.fetches <= 1
    /\ Count(inv.ops, "decryptWithSecretKey") <= 1
    /\ UnwrapFailed
          => /\ inv.ret = Null
             /\ Count(inv.ops, "encryptWithPublicKey") = 0
             /\ txs = <<>>
             /\ inv.pc = "done"
             /\ ~inv.success
InviteAbortsOnFailedUnwrapWitness ==
    /\ UnwrapFailed
    /\ inv.entry = "inviteToEncryptedRoom"
    /\ inv.fetched # Null
    /\ inv.ops = <<"deriveKeypair", "decryptWithSecretKey">>
    /\ inv.error = "Failed to prepare encrypted key for invitee"

\* What the caller of the invite sees when it has ended
InviteResult == [ret |-> inv.ret, success |-> inv.success, error |-> inv.error]

\* The result the same call gives when getEncryptedKeyFromChatRoom answers
\* with encryptedKey
InviteResultOn(encryptedKey, esk) ==
    LET r == prepareEncryptedKeyForInvite(encryptedKey, inv.secretKey, inv.parsed.v, esk)
    IN [ret |-> r.ret, success |-> FALSE,
        error |-> IF inv.entry = "inviteToEncryptedRoom" /\ r.ret.tag = "null"
                  THEN "Failed to prepare encrypted key for invitee" ELSE "none"]

\* C14: the result of an invite whose fetch of the inviter's record failed
\* differs from the result the same invite gives when the record is absent
\* and when the record does not open with the inviter's secret key.
FetchFailureDistinguishable ==
    (inv.pc = "done" /\ inv.fetches = 1 /\ inv.fetchError) =>
        \A record \in LedgerRecords(room.key, inviter, invitee.kp), esk \in EphemeralKeys :
            (record = Null \/ decryptWithSecretKey(record.v, inv.secretKey) = Null)
                => InviteResult # InviteResultOn(record, esk)

\* ------------------------------------------------------------------------
\* Chat room page and the exported encryption hooks
\* ------------------------------------------------------------------------

\* The character of a base64 digit, and the digit of a character
CharOf(d) ==
    IF d < 26 THEN 65 + d
    ELSE IF d < 52 THEN 97 + (d - 26)
    ELSE IF d < 62 THEN 48 + (d - 52)
    ELSE IF d = 62 THEN 43
    ELSE IF d = 63 THEN 47
    ELSE 61
DigitOf(c) ==
    IF c >= 65 /\ c <= 90 THEN c - 65
    ELSE IF c >= 97 /\ c <= 122 THEN c - 97 + 26
    ELSE IF c >= 48 /\ c <= 57 THEN c - 48 + 52
    ELSE IF c = 43 THEN 62
    ELSE IF c = 47 THEN 63
    ELSE IF c = 61 THEN PADCHAR
    ELSE NOT_BASE64
\* A base64 text as a JavaScript string, and a string read as base64 text
AsString(t) == [i \in 1..Len(t) |-> CharOf(t[i])]
AsBase64Text(str) == [i \in 1..Len(str) |-> DigitOf(str[i])]

SPACE == 32
\* String.prototype.trim
RECURSIVE TrimStart(_)
TrimStart(str) ==
    IF Len(str) > 0 /\ str[1] = SPACE THEN TrimStart(SliceFrom(str, 2)) ELSE str
RECURSIVE TrimEnd(_)
TrimEnd(str) ==
    IF Len(str) > 0 /\ str[Len(str)] = SPACE THEN TrimEnd(Slice(str, 1, Len(str) - 1))
    ELSE str
Trim(str) == TrimEnd(TrimStart(str))

\* '[Decryption failed]'
DECRYPTION_FAILED ==
    <<91, 68, 101, 99, 114, 121, 112, 116, 105, 111, 110, 32,
      102, 97, 105, 108, 101, 100, 93>>

\* What the user typed into the message box
MessageTexts == {<<SPACE>>, <<97>>, <<97, SPACE>>, <<233>>}

\* The message contents the ledger can hold for a room with this key:
\* envelopes of 'a' and of the empty string, an envelope with a modified
\* ciphertext, an envelope under another key, and a plain text
FetchedContents(key) ==
    LET nonce == CHOOSE n \in randombytes_buf(NONCEBYTES) : TRUE
        k == IF key = <<>> THEN CHOOSE x \in SymKeys : TRUE ELSE key
        envelope == encryptMessage(<<97>>, k, nonce).v
    IN {AsString(envelope),
        AsString(encryptMessage(<<>>, k, nonce).v),
        AsString(to_base64(TamperAt(Decoded(envelope), 2 + NONCEBYTES, 1))),
        <<97>>}
       \cup {AsString(encryptMessage(<<97>>, other, nonce).v) : other \in SymKeys \ {k}}

PageInit ==
    /\ sodiumReady = FALSE
    /\ \E isEncrypted \in BOOLEAN, key \in SymKeys :
          chat = [NoChat EXCEPT !.isEncrypted = isEncrypted,
                                !.key = IF isEncrypted THEN key ELSE <<>>]
    /\ rawMessages = <<>>
    /\ sent = <<>>
    /\ early = {}
    /\ CryptoInit
    /\ ClientIdle
    /\ DeriveIdle
    /\ HookIdle
    /\ InviteIdle

\* The primitives of a call that run before initCrypto has completed
Early(primitives) == IF sodiumReady THEN {} ELSE primitives

\* useEncryptionKeypair: the mount effect's initCrypto() resolves
InitCrypto ==
    /\ ~sodiumReady
    /\ sodiumReady' = TRUE
    /\ UNCHANGED <<chat, rawMessages, sent, early>>

\* useRoomKeyDecryption.decryptRoomKey, started by its effect in an encrypted
\* room: initCrypto is awaited, then the keypair is derived, the record
\* fetched and opened; a failure of one of these leaves roomKey null
DecryptRoomKey ==
    /\ chat.isEncrypted
    /\ ~chat.isDecrypted
    /\ sodiumReady' = TRUE
    /\ \E ok \in BOOLEAN :
          chat' = IF ok THEN [chat EXCEPT !.roomKey = Val(chat.key), !.isDecrypted = TRUE,
                                          !.error = FALSE]
                  ELSE [chat EXCEPT !.roomKey = Null, !.error = TRUE]
    /\ UNCHANGED <<rawMessages, sent, early>>

\* useMessages delivers the messages of the room
MessagesFetched ==
    /\ rawMessages = <<>>
    /\ rawMessages' \in SeqsUpTo(FetchedContents(chat.key), MaxFetched) \ {<<>>}
    /\ UNCHANGED <<sodiumReady, chat, sent, early>>

\* ChatRoomPage.messages (useMemo): the list shown
messages ==
    IF ~chat.isEncrypted \/ chat.roomKey = Null
    THEN [i \in 1..Len(rawMessages) |-> [content |-> rawMessages[i]]]
    ELSE [i \in 1..Len(rawMessages) |->
            LET decryptedContent == decryptMessage(AsBase64Text(rawMessages[i]), chat.roomKey.v)
            IN [content |-> IF decryptedContent = Null \/ decryptedContent.v = <<>>
                            THEN DECRYPTION_FAILED ELSE decryptedContent.v]]

\* ChatRoomPage.handleSendMessage of the page with room-key decryption: the
\* tests, the encryption in an encrypted room, the transaction, and
\* executeSponsoredTx, which encodes the transaction bytes with toBase64
HandleSendMessage ==
    /\ Len(sent) < MaxSends
    /\ \E messageText \in MessageTexts, nonce \in randombytes_buf(NONCEBYTES) :
          /\ Trim(messageText) # <<>>
          /\ ~(chat.isEncrypted /\ chat.roomKey = Null)
          /\ IF chat.isEncrypted /\ chat.roomKey # Null
             THEN /\ sent' = Append(sent,
                        [page |-> "roomKey", text |-> Trim(messageText), draw |-> nonce,
                         content |-> AsString(encryptMessage(Trim(messageText),
                                                             chat.roomKey.v, nonce).v)])
                  /\ early' = early \cup Early({"encryptMessage", "toBase64"})
             ELSE /\ sent' = Append(sent,
                        [page |-> "roomKey", text |-> Trim(messageText), draw |-> <<>>,
                         content |-> Trim(messageText)])
                  /\ early' = early \cup Early({"toBase64"})
    /\ UNCHANGED <<sodiumReady, chat, rawMessages>>

\* ChatRoomPage.handleSendMessage of app/rooms/[id]/page.tsx: the trimmed
\* text goes into the transaction as typed, signed by the wallet
HandleSendMessagePlain ==
    /\ Len(sent) < MaxSends
    /\ \E messageText \in MessageTexts :
          /\ Trim(messageText) # <<>>
          /\ sent' = Append(sent,
                [page |-> "plain", text |-> Trim(messageText), draw |-> <<>>,
                 content |-> Trim(messageText)])
    /\ UNCHANGED <<sodiumReady, chat, rawMessages, early>>

\* useRoomKey.createRoomKey: createRandomSymmetricKey with no initCrypto
CreateRoomKey ==
    /\ early' = early \cup Early({"createRandomSymmetricKey"})
    /\ early' # early
    /\ UNCHANGED <<sodiumReady, chat, rawMessages, sent>>

pageOthers == <<cryptoVars, deriveVars, hookVars, inviteVars, clientVars>>

PageNext ==
    \/ InitCrypto /\ UNCHANGED pageOthers
    \/ DecryptRoomKey /\ UNCHANGED pageOthers
    \/ MessagesFetched /\ UNCHANGED pageOthers
    \/ HandleSendMessage /\ UNCHANGED pageOthers
    \/ HandleSendMessagePlain /\ UNCHANGED pageOthers
    \/ CreateRoomKey /\ UNCHANGED pageOthers

PageSpec == PageInit /\ [][PageNext]_vars

\* C15: with the room key available the list shown has the length and the
\* order of the fetched list; a message that does not decrypt is shown as
\* '[Decryption failed]' and a message that decrypts is shown as its
\* plaintext, each independently of the others.
PerMessagePlaceholder ==
    (chat.isEncrypted /\ chat.roomKey # Null) =>
        /\ Len(messages) = Len(rawMessages)
        /\ \A i \in 1..Len(rawMessages) :
              LET plain == decryptMessage(AsBase64Text(rawMessages[i]), chat.roomKey.v)
              IN messages[i].content = IF plain = Null THEN DECRYPTION_FAILED ELSE plain.v

\* C16: no crypto primitive is called before a call of initCrypto has
\* completed.
InitializationPrecedesUse == early = {}

\* The nonce bytes (1..24) of the envelope in a message content
EnvelopeNonce(content) == Slice(Decoded(AsBase64Text(content)), 2, 1 + NONCEBYTES)

\* C17: the nonce in the envelope of every encrypted message is the value
\* the random-bytes primitive returned inside that call of encryptMessage,
\* whatever the message, the key and the earlier calls were.
FreshNoncePerMessage ==
    \A i \in 1..Len(sent) :
        sent[i].draw # <<>> =>
            /\ sent[i].draw \in randombytes_buf(NONCEBYTES)
            /\ EnvelopeNonce(sent[i].content) = sent[i].draw
FreshNoncePerMessageWitness ==
    /\ Len(sent) = 2
    /\ sent[1].text = sent[2].text
    /\ sent[1].draw # <<>> /\ sent[2].draw # <<>> /\ sent[1].draw # sent[2].draw
    /\ EnvelopeNonce(sent[1].content) = sent[1].draw
    /\ EnvelopeNonce(sent[2].content) = sent[2].draw

\* C19: in an encrypted room every send_message transaction carries the
\* envelope encryptMessage made of the typed text under the room key, and
\* without the room key no send transaction is built.
EncryptedRoomsNeverSendPlaintext ==
    chat.isEncrypted =>
        /\ chat.roomKey = Null => sent = <<>>
        /\ \A i \in 1..Len(sent) :
              /\ sent[i].draw # <<>>
              /\ sent[i].content =
                     AsString(encryptMessage(sent[i].text, chat.key, sent[i].draw).v)

\* ------------------------------------------------------------------------
\* Room creation and invites, one after the other
\* ------------------------------------------------------------------------

RoomInit ==
    /\ authMethod = "zklogin"
    /\ inviter \in {deriveEncryptionKeypairFromZkLogin(c) : c \in SampleClaims}
    /\ \E kp \in {deriveEncryptionKeypair(sig) : sig \in Signatures} :
          \E publicKey \in {BytesKey(kp.publicKey), StringKey(to_base64(kp.publicKey)),
                            BytesKey(Append(kp.publicKey, 0))} :
             invitee = [kp |-> kp, chatIndexId |-> TRUE, publicKey |-> publicKey]
    /\ room = [key |-> <<>>, record |-> Null]
    /\ inv = NoInvite
    /\ txs = <<>>
    /\ claims = NoClaims
    /\ calls = <<>>
    /\ CryptoInit
    /\ ClientIdle
    /\ PageIdle
    /\ HookIdle

\* Variant: the length of the parsed profile key is not tested, the key is
\* cut or zero-padded to 32 bytes
createRoomKey_AnyLength(isEncrypted, profileKey, symmetricKey, esk) ==
    IF ~isEncrypted THEN [generated |-> <<>>, encryptedKey |-> Val(<<>>)]
    ELSE IF FalsyKey(profileKey) THEN [generated |-> <<>>, encryptedKey |-> Null]
    ELSE [generated |-> <<symmetricKey>>,
          encryptedKey |-> encryptWithPublicKey(symmetricKey,
                                                PadTo(parsePublicKey(profileKey).v, KEYBYTES),
                                                esk)]

\* handleCreateRoom between initCrypto and createChatTransaction: the room
\* keys it generates and the encryptedKey it hands to the transaction (null:
\* it returns before a transaction is built).  symmetricKey is the value
\* createRandomSymmetricKey draws, esk the ephemeral key of the sealed box.
createRoomKey(isEncrypted, profileKey, symmetricKey, esk) ==
    IF ~isEncrypted THEN [generated |-> <<>>, encryptedKey |-> Val(<<>>)]
    ELSE IF FalsyKey(profileKey) THEN [generated |-> <<>>, encryptedKey |-> Null]
    ELSE LET publicKey == parsePublicKey(profileKey).v
         IN IF Len(publicKey) # KEYBYTES
            THEN [generated |-> <<symmetricKey>>, encryptedKey |-> Null]
            ELSE [generated |-> <<symmetricKey>>,
                  encryptedKey |-> encryptWithPublicKey(symmetricKey, publicKey, esk)]

\* CreateRoomPage.handleCreateRoom: for an encrypted room a fresh key is
\* sealed to the 32-byte key of the creator's profile; the create_chat
\* transaction is built and handed to executeSponsoredTx, and when it
\* succeeds the ledger holds the room with the creator's record
HandleCreateRoom ==
    /\ Len(txs) < MaxTxs
    /\ Len(attempts) < MaxTxs
    /\ inv.pc \in {"idle", "done"}
    /\ \E isEncrypted \in BOOLEAN, success \in BOOLEAN :
          \E profileKey \in IF isEncrypted
                            THEN {NoProfileKey, BytesKey(inviter.publicKey),
                                  BytesKey(Slice(inviter.publicKey, 1, KEYBYTES - 1))}
                            ELSE {BytesKey(inviter.publicKey)},
             symmetricKey \in IF isEncrypted THEN randombytes_buf(KEYBYTES) ELSE {<<>>},
             esk \in IF isEncrypted THEN EphemeralKeys ELSE {<<>>} :
             LET made == createRoomKey(isEncrypted, profileKey, symmetricKey, esk)
             IN /\ attempts' = Append(attempts, [isEncrypted |-> isEncrypted,
                                                 profileKey |-> profileKey,
                                                 generated |-> made.generated,
                                                 encryptedKey |-> made.encryptedKey])
                /\ IF made.encryptedKey.tag = "null"
                   THEN txs' = txs /\ room' = room
                   ELSE /\ txs' = Append(txs, [fn |-> "create_chat",
                                               encryptedKey |-> made.encryptedKey.v])
                        /\ room' = IF ~success THEN room
                                   ELSE IF isEncrypted
                                   THEN [key |-> symmetricKey, record |-> made.encryptedKey]
                                   ELSE [key |-> <<>>, record |-> Null]
    /\ UNCHANGED <<authMethod, inviter, invitee, inv>>

\* useInviteMember.inviteToPublicRoom: the transaction carries an empty key
InviteToPublicRoom ==
    /\ Len(txs) < MaxTxs
    /\ inv.pc = "idle"
    /\ IF ~invitee.chatIndexId
       THEN /\ InviteFails("inviteToPublicRoom", "Invitee does not have a chat index")
            /\ txs' = txs
       ELSE /\ inv' = [inv EXCEPT !.entry = "inviteToPublicRoom", !.pc = "execute"]
            /\ txs' = Append(txs, [fn |-> "invite_to_chat", encryptedKey |-> <<>>])
    /\ UNCHANGED <<authMethod, room, inviter, invitee>>

\* The invite has ended; the user may invite again
InviteAgain ==
    /\ Len(txs) < MaxTxs
    /\ inv.pc = "done"
    /\ inv' = NoInvite
    /\ UNCHANGED <<authMethod, room, inviter, invitee, txs>>

roomOthers == <<cryptoVars, claims, calls, hookVars, pageVars, storage, keyHook, sponsored, cache>>

RoomNext ==
    \/ HandleCreateRoom /\ UNCHANGED roomOthers
    \/ InviteToPublicRoom /\ UNCHANGED <<attempts, roomOthers>>
    \/ (Len(txs) < MaxTxs /\ InviteToEncryptedRoom) /\ UNCHANGED <<attempts, roomOthers>>
    \/ InviteKeypairDerived /\ UNCHANGED <<attempts, roomOthers>>
    \/ PrepareReady /\ UNCHANGED <<attempts, roomOthers>>
    \/ PrepareFetched /\ UNCHANGED <<attempts, roomOthers>>
    \/ InviteExecuted /\ UNCHANGED <<attempts, roomOthers>>
    \/ InviteAgain /\ UNCHANGED <<attempts, roomOthers>>

RoomSpec == RoomInit /\ [][RoomNext]_vars

\* The byte string k occurs in b
Contains(b, k) ==
    \E i \in 0..(Len(b) - Len(k)) : Slice(b, i + 1, i + Len(k)) = k

\* C18: the key payload of every create_chat and invite_to_chat transaction
\* is empty or an 80-byte sealed box that the secret key of a member opens
\* to a room key, and no room key occurs in any payload.
RoomKeyNeverSentUnwrapped ==
    \A i \in 1..Len(txs) :
        LET payload == txs[i].encryptedKey
        IN \/ payload = <<>>
           \/ /\ Len(payload) = KEYBYTES + SEALBYTES
              /\ \E kp \in Keypairs :
                    LET opened == decryptWithSecretKey(payload, kp.secretKey)
                    IN opened.tag = "val" /\ opened.v \in SymKeys
              /\ \A k \in SymKeys : ~Contains(payload, k)
RoomKeyNeverSentUnwrappedWitness ==
    /\ Len(txs) = 2
    /\ txs[1].fn = "create_chat" /\ txs[1].encryptedKey # <<>>
    /\ decryptWithSecretKey(txs[1].encryptedKey, inviter.secretKey) = Val(room.key)
    /\ txs[2].fn = "invite_to_chat" /\ txs[2].encryptedKey # <<>>
    /\ decryptWithSecretKey(txs[2].encryptedKey, invitee.kp.secretKey) = Val(room.key)

\* The create_chat payloads submitted, and those the attempts handed over
CreateChatPayloads ==
    LET created == SelectSeq(txs, LAMBDA t : t.fn = "create_chat")
    IN [i \in 1..Len(created) |-> created[i].encryptedKey]
AttemptPayloads ==
    LET handed == SelectSeq(attempts, LAMBDA a : a.encryptedKey.tag = "val")
    IN [i \in 1..Len(handed) |-> handed[i].encryptedKey.v]

\* C23: an attempt to create an encrypted room with a 32-byte profile key
\* generates exactly one 32-byte room key and submits it sealed to that
\* profile key (the creator's secret key opens the record to the generated
\* key); a public room generates no key and submits an empty record; with
\* the profile key missing or not 32 bytes long no transaction is submitted
\* and no second key is generated.
OneKeyPerRoomCreation ==
    /\ CreateChatPayloads = AttemptPayloads
    /\ \A i \in 1..Len(attempts) :
          LET a == attempts[i]
              valid == /\ ~FalsyKey(a.profileKey)
                       /\ Len(parsePublicKey(a.profileKey).v) = KEYBYTES
          IN IF ~a.isEncrypted
             THEN a.generated = <<>> /\ a.encryptedKey = Val(<<>>)
             ELSE IF valid
             THEN /\ Len(a.generated) = 1
                  /\ Len(a.generated[1]) = KEYBYTES
                  /\ a.encryptedKey.tag = "val"
                  /\ Len(a.encryptedKey.v) = KEYBYTES + SEALBYTES
                  /\ parsePublicKey(a.profileKey).v = inviter.publicKey
                  /\ decryptWithSecretKey(a.encryptedKey.v, inviter.secretKey)
                        = Val(a.generated[1])
             ELSE a.encryptedKey = Null /\ Len(a.generated) <= 1
OneKeyPerRoomCreationWitness ==
    /\ Len(attempts) = 2
    /\ attempts[1].isEncrypted /\ attempts[1].encryptedKey = Null
    /\ attempts[1].profileKey # NoProfileKey
    /\ attempts[2].isEncrypted /\ attempts[2].encryptedKey # Null
    /\ Len(txs) = 1 /\ txs[1].encryptedKey = attempts[2].encryptedKey.v
    /\ room.key = attempts[2].generated[1]

\* The invitee's profile holds a public key that parses to exactly 32 bytes
InviteeKeyValid ==
    /\ ~FalsyKey(invitee.publicKey)
    /\ parsePublicKey(invitee.publicKey).tag = "val"
    /\ Len(parsePublicKey(invitee.publicKey).v) = KEYBYTES

\* C22: in inviteToEncryptedRoom an invitee key that is absent or not 32
\* bytes long is detected before any cryptographic operation of the invite
\* (key derivation, unwrap of the inviter's record, wrap for the invitee).
ValidationPrecedesCryptography ==
    (inv.entry = "inviteToEncryptedRoom" /\ ~InviteeKeyValid) => inv.ops = <<>>

\* ------------------------------------------------------------------------
\* The client session: sign-in, derivations, rooms, invites, sign-out
\* ------------------------------------------------------------------------

\* Variant: the state setter also writes the values to the browser storage
setState_Persist(store, values) == store \cup values

\* The storage after setState / a useState setter was given the values: the
\* values live in the memory of the page, the storage is left as it is
setState(store, values) == store

\* The text of a session JWT (header '.' payload), as the wallet stores it
JwtText(payload) ==
    <<101, 121, 74, 46>> \o Interpolate(payload.sub) \o <<46>> \o Interpolate(payload.iss)

\* The claims the derivations of this session work on
SessionClaims ==
    LET sessionData == getZkLoginSessionData(session).v
    IN [sub |-> sessionData.sub, iss |-> sessionData.iss, aud |-> sessionData.aud,
        userSalt |-> Str(<<97>>)]
SessionKeypair == deriveEncryptionKeypairFromZkLogin(SessionClaims)

ClientInit ==
    /\ authMethod = "none"
    /\ session = NoSession
    /\ hook = NoHookState
    /\ runs = [r \in 1..MaxRuns |-> NoRun]
    /\ claims = NoClaims
    /\ calls = <<>>
    /\ room = [key |-> <<>>, record |-> Null]
    /\ inviter = NoKeypair
    /\ \E kp \in {deriveEncryptionKeypair(sig) : sig \in Signatures} :
          invitee = [kp |-> kp, chatIndexId |-> TRUE, publicKey |-> BytesKey(kp.publicKey)]
    /\ inv = NoInvite
    /\ txs = <<>>
    /\ storage = {}
    /\ attempts = <<>>
    /\ keyHook = NoKeyHook
    /\ sponsored = NoSponsored
    /\ cache = NoCache
    /\ CryptoInit
    /\ PageIdle

\* The user signs in with Google: the wallet holds the session, whose JWT
\* is found in the browser storage from then on
SignIn ==
    /\ authMethod = "none"
    /\ \E c \in SampleClaims :
          session' = [jwt |-> "ok",
                      payload |-> [sub |-> c.sub, iss |-> c.iss, aud |-> AudString(c.aud)]]
    /\ authMethod' = "zklogin"
    /\ storage' = storage \cup {JwtText(session'.payload)}
    /\ UNCHANGED <<hook, calls, room, chat, sodiumReady, txs>>

\* useZkLoginKeypair.derive, from call to return
ClientDerive ==
    /\ isZkLogin
    /\ \E response \in SaltResponses :
          IF fetchUserSalt(response).tag = "throw"
          THEN /\ hook' = [hook EXCEPT !.isLoading = FALSE, !.error = "salt"]
               /\ storage' = setState(storage, {})
          ELSE LET keypair == SessionKeypair
                   publicKeyBase64 == to_base64(keypair.publicKey)
               IN /\ hook' = [keypair |-> Val(keypair),
                              publicKeyBase64 |-> Val(publicKeyBase64),
                              isLoading |-> FALSE, error |-> "null"]
                  /\ storage' = setState(storage, {keypair.secretKey, keypair.publicKey,
                                                   AsString(publicKeyBase64)})
    /\ sodiumReady' = TRUE
    /\ UNCHANGED <<authMethod, session, calls, room, chat, txs>>

\* TestPage.handleDeriveKeypair: both keys are kept, base64-encoded, in the
\* state of the page and written to its log
HandleDeriveKeypair ==
    /\ isZkLogin
    /\ Len(calls) < MaxCalls
    /\ LET keypair == SessionKeypair
           publicKeyBase64 == AsString(to_base64(keypair.publicKey))
           secretKeyBase64 == AsString(to_base64(keypair.secretKey))
       IN /\ calls' = Append(calls, [kind |-> "claims", signature |-> <<>>,
                                     claims |-> SessionClaims, keypair |-> keypair])
          /\ storage' = setState(storage, {publicKeyBase64, secretKeyBase64})
    /\ UNCHANGED <<authMethod, session, hook, room, chat, sodiumReady, txs>>

\* CreateRoomPage.handleCreateRoom for an encrypted room, the transaction
\* executed: the ledger holds the room and the creator's record
ClientCreateRoom ==
    /\ isZkLogin
    /\ room.record = Null
    /\ Len(txs) < MaxTxs
    /\ \E symmetricKey \in randombytes_buf(KEYBYTES), esk \in EphemeralKeys :
          LET encryptedKey == encryptWithPublicKey(symmetricKey, SessionKeypair.publicKey, esk).v
          IN /\ txs' = Append(txs, [fn |-> "create_chat", encryptedKey |-> encryptedKey])
             /\ room' = [key |-> symmetricKey, record |-> Val(encryptedKey)]
    /\ sodiumReady' = TRUE
    /\ UNCHANGED <<authMethod, session, hook, calls, chat, storage>>

\* The user opens the room: useRoomKeyDecryption.decryptRoomKey, from call
\* to return, keeps the unwrapped room key in the state of the hook
ClientOpenRoom ==
    /\ isZkLogin
    /\ room.record # Null
    /\ LET roomKey == decryptWithSecretKey(room.record.v, SessionKeypair.secretKey)
       IN IF roomKey.tag = "null"
          THEN /\ chat' = [NoChat EXCEPT !.isEncrypted = TRUE, !.key = room.key,
                                         !.error = TRUE]
               /\ storage' = setState(storage, {})
          ELSE /\ chat' = [NoChat EXCEPT !.isEncrypted = TRUE, !.key = room.key,
                                         !.roomKey = roomKey, !.isDecrypted = TRUE]
               /\ storage' = setState(storage, {roomKey.v})
    /\ sodiumReady' = TRUE
    /\ UNCHANGED <<authMethod, session, hook, calls, room, txs>>

\* useInviteMember.inviteToEncryptedRoom, from call to return: the room key
\* is unwrapped and sealed to the invitee inside prepareEncryptedKeyForInvite
ClientInvite ==
    /\ isZkLogin
    /\ room.record # Null
    /\ Len(txs) < MaxTxs
    /\ \E esk \in EphemeralKeys :
          LET prepared == prepareEncryptedKeyForInvite(room.record, SessionKeypair.secretKey,
                                                       invitee.kp.publicKey, esk)
          IN txs' = IF prepared.ret.tag = "null" THEN txs
                    ELSE Append(txs, [fn |-> "invite_to_chat",
                                      encryptedKey |-> prepared.ret.v])
    /\ sodiumReady' = TRUE
    /\ UNCHANGED <<authMethod, session, hook, calls, room, chat, storage>>

\* The user disconnects: the hooks clear their state, the wallet forgets the
\* session; its JWT may stay behind in the storage
SignOut ==
    /\ isZkLogin
    /\ authMethod' = "none"
    /\ session' = NoSession
    /\ hook' = NoHookState
    /\ chat' = NoChat
    /\ storage' \in {storage, storage \ {JwtText(session.payload)}}
    /\ UNCHANGED <<calls, room, sodiumReady, txs>>

clientOthers == <<cryptoVars, claims, runs, inviter, invitee, inv, rawMessages, sent, early,
                  attempts, keyHook, sponsored, cache>>

ClientNext ==
    \/ SignIn /\ UNCHANGED clientOthers
    \/ ClientDerive /\ UNCHANGED clientOthers
    \/ HandleDeriveKeypair /\ UNCHANGED clientOthers
    \/ ClientCreateRoom /\ UNCHANGED clientOthers
    \/ ClientOpenRoom /\ UNCHANGED clientOthers
    \/ ClientInvite /\ UNCHANGED clientOthers
    \/ SignOut /\ UNCHANGED clientOthers

ClientSpec == ClientInit /\ [][ClientNext]_vars

\* Every secret of the client: the secret key of each keypair a user can
\* derive and each room key, as bytes and base64-encoded
SecretValues ==
    LET secrets == {kp.secretKey : kp \in Keypairs} \cup SymKeys
    IN secrets \cup {AsString(to_base64(k)) : k \in secrets}

ChatIds == {"0xa", "0xb"}
\* the key of each room
RoomKeys == CHOOSE f \in [ChatIds -> SymKeys] : \A c, d \in ChatIds : c # d => f[c] # f[d]

KeyHookInit ==
    /\ \E chatId \in ChatIds, members \in SUBSET ChatIds,
          user \in {deriveEncryptionKeypairFromZkLogin(c) : c \in SampleClaims},
          esk \in EphemeralKeys :
          keyHook = [NoKeyHook EXCEPT
                        !.chatId = chatId,
                        !.user = user,
                        !.ledger = [c \in ChatIds |->
                                       IF c \in members
                                       THEN encryptWithPublicKey(RoomKeys[c], user.publicKey, esk)
                                       ELSE Null],
                        !.effect = TRUE]
    /\ storage = {}
    /\ attempts = <<>>
    /\ sponsored = NoSponsored
    /\ cache = NoCache
    /\ pc = "idle" /\ box = NoBox /\ msg = NoMsg /\ out = Null /\ edit = "none"
    /\ DeriveIdle
    /\ HookIdle
    /\ InviteIdle
    /\ PageIdle

\* The hook after setState(next): the auto-decrypt effect is due again when
\* one of its dependencies state.isDecrypted, state.isLoading has changed
Rendered(h, next) ==
    [h EXCEPT !.state = next,
              !.effect = @ \/ next.isDecrypted # h.state.isDecrypted
                           \/ next.isLoading # h.state.isLoading]

\* The auto-decrypt effect runs; when the state is neither decrypted nor
\* loading it calls decryptRoomKey, which runs up to await initCrypto()
AutoDecrypt ==
    /\ keyHook.effect
    /\ IF ~keyHook.state.isDecrypted /\ ~keyHook.state.isLoading
       THEN \E r \in 1..MaxRuns :
               /\ keyHook.calls[r].pc = "idle"
               /\ \A q \in 1..(r - 1) : keyHook.calls[q].pc # "idle"
               /\ keyHook' = [keyHook EXCEPT
                                 !.state = [@ EXCEPT !.isLoading = TRUE, !.error = "null"],
                                 !.effect = TRUE,
                                 !.calls[r] = [pc |-> "initCrypto", chatId |-> keyHook.chatId]]
       ELSE keyHook' = [keyHook EXCEPT !.effect = FALSE]

\* await initCrypto() resumes: deriveKeypair() is called and awaited
DecryptReady(r) ==
    /\ keyHook.calls[r].pc = "initCrypto"
    /\ keyHook' = [keyHook EXCEPT !.calls[r].pc = "deriveKeypair"]

\* the catch block of decryptRoomKey
DecryptFailed(r, message) ==
    keyHook' = [Rendered(keyHook, [roomKey |-> Null, isLoading |-> FALSE, error |-> message,
                                   isDecrypted |-> FALSE])
                  EXCEPT !.calls[r] = NoDecrypt]

\* await deriveKeypair() resumes: getEncryptedKeyFromChatRoom is called with
\* the chatId of the call and awaited
DecryptKeypairDerived(r) ==
    /\ keyHook.calls[r].pc = "deriveKeypair"
    /\ \E derived \in BOOLEAN :
          IF derived THEN keyHook' = [keyHook EXCEPT !.calls[r].pc = "fetch"]
          ELSE DecryptFailed(r, "Failed to derive encryption keypair")

\* await getEncryptedKeyFromChatRoom resumes, with null (no record, or the
\* request failed) or with the record of the ledger: the record is opened,
\* the state set, the call returns
DecryptKeyFetched(r) ==
    /\ keyHook.calls[r].pc = "fetch"
    /\ \/ DecryptFailed(r, "Failed to get encrypted key from chat room. You may not be a member.")
       \/ LET encryptedKey == keyHook.ledger[keyHook.calls[r].chatId]
          IN /\ encryptedKey.tag = "val"
             /\ LET roomKey == decryptWithSecretKey(encryptedKey.v, keyHook.user.secretKey)
                IN IF roomKey.tag = "null"
                   THEN DecryptFailed(r, "Failed to decrypt room key. Key may be corrupted.")
                   ELSE keyHook' = [Rendered(keyHook, [roomKey |-> roomKey,
                                                       isLoading |-> FALSE,
                                                       error |-> "null",
                                                       isDecrypted |-> TRUE])
                                      EXCEPT !.calls[r] = NoDecrypt]

\* The page shows another room: chatId changes, the cleanup of the reset
\* effect sets the initial state, the auto-decrypt effect is due
ChangeRoom ==
    /\ \E chatId \in ChatIds \ {keyHook.chatId} :
          keyHook' = [keyHook EXCEPT !.chatId = chatId, !.state = NoKeyState, !.effect = TRUE]

keyHookOthers == <<cryptoVars, deriveVars, hookVars, inviteVars, pageVars, storage, attempts,
                   sponsored, cache>>

\* chatId, isEncrypted and the account held fixed
KeyHookFixedNext ==
    \/ AutoDecrypt /\ UNCHANGED keyHookOthers
    \/ \E r \in 1..MaxRuns : DecryptReady(r) /\ UNCHANGED keyHookOthers
    \/ \E r \in 1..MaxRuns : DecryptKeypairDerived(r) /\ UNCHANGED keyHookOthers
    \/ \E r \in 1..MaxRuns : DecryptKeyFetched(r) /\ UNCHANGED keyHookOthers

KeyHookNext ==
    \/ AutoDecrypt /\ UNCHANGED keyHookOthers
    \/ \E r \in 1..MaxRuns : DecryptReady(r) /\ UNCHANGED keyHookOthers
    \/ \E r \in 1..MaxRuns : DecryptKeypairDerived(r) /\ UNCHANGED keyHookOthers
    \/ \E r \in 1..MaxRuns : DecryptKeyFetched(r) /\ UNCHANGED keyHookOthers
    \/ ChangeRoom /\ UNCHANGED keyHookOthers

KeyHookSpec == KeyHookInit /\ [][KeyHookNext]_vars

\* Every effect that is due runs and every await resumes
KeyHookFixedSpec ==
    /\ KeyHookInit
    /\ [][KeyHookFixedNext]_vars
    /\ WF_keyHook(AutoDecrypt)
    /\ \A r \in 1..MaxRuns :
          /\ WF_keyHook(DecryptReady(r))
          /\ WF_keyHook(DecryptKeypairDerived(r))
          /\ WF_keyHook(DecryptKeyFetched(r))

\* C24: a non-null roomKey is what the record of the current chatId opens
\* to, also when chatId changed while a decryption was in flight.
RoomKeyMatchesOpenRoom ==
    keyHook.state.roomKey # Null =>
        /\ keyHook.ledger[keyHook.chatId] # Null
        /\ keyHook.state.roomKey
              = decryptWithSecretKey(keyHook.ledger[keyHook.chatId].v, keyHook.user.secretKey)

\* No decryption is in flight, none is about to start, and the hook shows
\* the room key or the error of a failed attempt
Settled ==
    /\ ~keyHook.effect
    /\ \A r \in 1..MaxRuns : keyHook.calls[r].pc = "idle"
    /\ ~keyHook.state.isLoading
    /\ keyHook.state.isDecrypted \/ keyHook.state.error # "null"

\* C25: with chatId, account and isEncrypted fixed the hook eventually
\* stays settled: decrypted with the room key, or in the error state of a
\* failed attempt, and starts no further attempt.
RoomKeyDecryptionSettles == <>[]Settled

\* ------------------------------------------------------------------------
\* useSponsoredTransaction: one instance, its execute calls
\* ------------------------------------------------------------------------

\* Variant: only the digest of the sponsor response is tested
sponsorDataMissing_DigestOnly(sponsorData) == ~Truthy(sponsorData.digest)

\* !sponsorData.txBytes || !sponsorData.digest
sponsorDataMissing(sponsorData) ==
    ~Truthy(sponsorData.txBytes) \/ ~Truthy(sponsorData.digest)

\* The bodies /api/sponsor answers with: txBytes absent, empty, 'AAAA', '!'
\* (not base64), digest absent or 'd'
SponsorData ==
    [txBytes : {Undefined, Str(<<>>), Str(<<65, 65, 65, 65>>), Str(<<33>>)},
     digest : {Undefined, Str(<<100>>)}]

SponsoredInit ==
    /\ sponsored = NoSponsored
    /\ storage = {}
    /\ attempts = <<>>
    /\ keyHook = NoKeyHook
    /\ cache = NoCache
    /\ pc = "idle" /\ box = NoBox /\ msg = NoMsg /\ out = Null /\ edit = "none"
    /\ DeriveIdle
    /\ HookIdle
    /\ InviteIdle
    /\ PageIdle

\* The catch and finally blocks of execute: the call resolves to
\* { success: false, error }.  calls[r].isPending is the isPending the call
\* leaves behind.
ExecuteFailed(r, message) ==
    sponsored' = [sponsored EXCEPT !.error = message,
                                   !.isPending = FALSE,
                                   !.calls[r].pc = "returned",
                                   !.calls[r].isPending = FALSE,
                                   !.calls[r].ret = Val([success |-> FALSE, error |-> message])]

\* execute(transaction) is called: without an account it returns at once,
\* otherwise it runs up to await transaction.build()
ExecuteStart(r) ==
    /\ sponsored.calls[r].pc = "idle"
    /\ \A q \in 1..(r - 1) : sponsored.calls[q].pc # "idle"
    /\ \E account \in BOOLEAN :
          IF ~account
          THEN sponsored' = [sponsored EXCEPT
                                !.error = "No wallet connected",
                                !.calls[r].pc = "returned",
                                !.calls[r].isPending = sponsored.isPending,
                                !.calls[r].ret = Val([success |-> FALSE,
                                                      error |-> "No wallet connected"])]
          ELSE sponsored' = [sponsored EXCEPT !.isPending = TRUE, !.error = "null",
                                              !.calls[r].pc = "build",
                                              !.calls[r].log = <<"build">>]

\* await transaction.build() resumes: POST /api/sponsor is sent
ExecuteBuilt(r) ==
    /\ sponsored.calls[r].pc = "build"
    /\ \E built \in BOOLEAN :
          IF ~built THEN ExecuteFailed(r, "build")
          ELSE sponsored' = [sponsored EXCEPT !.calls[r].pc = "sponsor",
                                              !.calls[r].log = Append(@, "/api/sponsor")]

\* await fetch('/api/sponsor') resumes (or rejects): the status and the body
\* are tested, the sponsored bytes decoded and signTransaction called
ExecuteSponsored(r) ==
    /\ sponsored.calls[r].pc = "sponsor"
    /\ \/ ExecuteFailed(r, "fetch")
       \/ ExecuteFailed(r, "Sponsor failed")
       \/ \E sponsorData \in SponsorData :
             IF sponsorDataMissing(sponsorData)
             THEN ExecuteFailed(r, "Sponsor response missing txBytes or digest")
             ELSE IF from_base64(AsBase64Text(sponsorData.txBytes.s)).tag = "throw"
             THEN ExecuteFailed(r, "fromBase64")
             ELSE sponsored' = [sponsored EXCEPT
                                   !.calls[r].pc = "sign",
                                   !.calls[r].sponsorOk = TRUE,
                                   !.calls[r].sponsorData = sponsorData,
                                   !.calls[r].log = Append(@, "signTransaction")]

\* await signTransaction resumes (or the user refuses): POST
\* /api/sponsor/execute is sent with the digest and the signature
ExecuteSigned(r) ==
    /\ sponsored.calls[r].pc = "sign"
    /\ \E signed \in BOOLEAN :
          IF ~signed THEN ExecuteFailed(r, "signTransaction")
          ELSE sponsored' = [sponsored EXCEPT
                                !.calls[r].pc = "execute",
                                !.calls[r].log = Append(@, "/api/sponsor/execute")]

\* await fetch('/api/sponsor/execute') resumes (or rejects): a response that
\* is not ok throws, the body of an ok response is returned
ExecuteAnswered(r) ==
    /\ sponsored.calls[r].pc = "execute"
    /\ \/ ExecuteFailed(r, "fetch")
       \/ ExecuteFailed(r, "Execute failed")
       \/ sponsored' = [sponsored EXCEPT
                           !.isPending = FALSE,
                           !.calls[r].pc = "returned",
                           !.calls[r].ret = Val([success |-> TRUE, error |-> "null"])]

sponsoredOthers == <<cryptoVars, deriveVars, hookVars, inviteVars, pageVars, storage, attempts,
                     keyHook, cache>>

SponsoredNext ==
    \/ \E r \in 1..MaxRuns : ExecuteStart(r) /\ UNCHANGED sponsoredOthers
    \/ \E r \in 1..MaxRuns : ExecuteBuilt(r) /\ UNCHANGED sponsoredOthers
    \/ \E r \in 1..MaxRuns : ExecuteSponsored(r) /\ UNCHANGED sponsoredOthers
    \/ \E r \in 1..MaxRuns : ExecuteSigned(r) /\ UNCHANGED sponsoredOthers
    \/ \E r \in 1..MaxRuns : ExecuteAnswered(r) /\ UNCHANGED sponsoredOthers

SponsoredSpec == SponsoredInit /\ [][SponsoredNext]_vars

\* The steps of execute, in order; a log is a prefix of them
ExecuteSteps == <<"build", "/api/sponsor", "signTransaction", "/api/sponsor/execute">>

\* C28: /api/sponsor/execute is requested only after /api/sponsor answered
\* ok with txBytes and digest and the user signed; a call that fails at a
\* step sends no later request, resolves to { success: false, error } and
\* leaves isPending false; with no call in flight isPending is false.
SponsoredOrdering ==
    \A r \in 1..MaxRuns :
        LET call == sponsored.calls[r]
        IN /\ call.log = SubSeq(ExecuteSteps, 1, Len(call.log))
           /\ Len(call.log) >= 3 =>
                 /\ call.sponsorOk
                 /\ Truthy(call.sponsorData.txBytes)
                 /\ Truthy(call.sponsorData.digest)
           /\ call.pc = "returned" =>
                 /\ call.ret.tag = "val"
                 /\ call.ret.v.success <=> (Len(call.log) = 4 /\ call.ret.v.error = "null")
                 /\ ~call.ret.v.success => call.ret.v.error # "null"
                 /\ (~call.ret.v.success /\ call.log # <<>>) => ~call.isPending
                 /\ (\A q \in 1..MaxRuns : sponsored.calls[q].pc \in {"idle", "returned"})
                       => ~sponsored.isPending
SponsoredOrderingWitness ==
    /\ sponsored.calls[1].pc = "returned"
    /\ sponsored.calls[1].log = <<"build", "/api/sponsor", "signTransaction">>
    /\ sponsored.calls[1].ret = Val([success |-> FALSE, error |-> "signTransaction"])
    /\ sponsored.calls[2].pc = "returned"
    /\ sponsored.calls[2].ret.v.success
    /\ ~sponsored.isPending

\* ---------------------------------------------------------------------
\* The message cache of a chat (hooks/useMessages.ts)
\*
\* cache.count      message_count of the room on the ledger; the messages
\*                  are the dynamic fields 0 .. count - 1
\* cache.list       the cached list of the query ['messages', chatId]
\* cache.lastCount  lastMessageCountRef.current
\* cache.pending    the asynchronous operations that await the ledger
\* cache.applied    the kinds of operation that have written the list
\* ---------------------------------------------------------------------

MAX_MESSAGES_DISPLAY == 2
MaxCount == 3
MaxPending == 2

\* parseMessageObject(result.data, messageIndex)
parseMessageObject(messageIndex) == [messageIndex |-> messageIndex]

\* arr.slice(-n)
sliceLast(arr, n) == SliceFrom(arr, IF Len(arr) > n THEN Len(arr) - n + 1 ELSE 1)

\* one step of arr.sort((a, b) => a.messageIndex - b.messageIndex): b is
\* placed after the entries of the sorted prefix that are not greater
insertByMessageIndex(sorted, b) ==
    LET k == Cardinality({j \in 1..Len(sorted) : sorted[j].messageIndex <= b.messageIndex})
    IN SubSeq(sorted, 1, k) \o <<b>> \o SubSeq(sorted, k + 1, Len(sorted))

RECURSIVE sortByMessageIndex(_)
sortByMessageIndex(arr) ==
    IF arr = <<>> THEN <<>>
    ELSE insertByMessageIndex(sortByMessageIndex(SubSeq(arr, 1, Len(arr) - 1)), arr[Len(arr)])

\* arr.findIndex(m => m.messageIndex === messageIndex), for a present index
findIndex(arr, messageIndex) ==
    CHOOSE j \in 1..Len(arr) :
        /\ arr[j].messageIndex = messageIndex
        /\ \A k \in 1..(j - 1) : arr[k].messageIndex # messageIndex

RECURSIVE filterFrom(_, _, _)
filterFrom(arr, keep, j) ==
    IF j > Len(arr) THEN <<>>
    ELSE (IF j \in keep THEN <<arr[j]>> ELSE <<>>) \o filterFrom(arr, keep, j + 1)

unique_KeepAll(combined) == combined

\* combined.filter((msg, idx, arr) =>
\*     arr.findIndex(m => m.messageIndex === msg.messageIndex) === idx)
unique(combined) ==
    filterFrom(combined,
               {idx \in 1..Len(combined) : findIndex(combined, combined[idx].messageIndex) = idx},
               1)

\* the updater of fetchAndAppendMissingMessages
appendMissing(oldMessages, newMessages) ==
    sliceLast(sortByMessageIndex(unique(oldMessages \o newMessages)), MAX_MESSAGES_DISPLAY)

\* the updater of the checkpoint handler
appendOne(oldMessages, newMessage) ==
    IF \E j \in 1..Len(oldMessages) : oldMessages[j].messageIndex = newMessage.messageIndex
    THEN oldMessages
    ELSE sliceLast(sortByMessageIndex(Append(oldMessages, newMessage)), MAX_MESSAGES_DISPLAY)

\* for (let i = fromIndex; i <= toIndex; i++) missingIndices.push(i)
missingIndices(fromIndex, toIndex) ==
    IF fromIndex > toIndex THEN <<>> ELSE [i \in 1..(toIndex - fromIndex + 1) |-> fromIndex + i - 1]

\* the indices of the dynamic fields below messageCount, sorted, the last
\* MAX_MESSAGES_DISPLAY of them
currentIndicesToFetch(messageCount) ==
    sliceLast(missingIndices(0, messageCount - 1), MAX_MESSAGES_DISPLAY)

\* results.map(parseMessageObject).filter(Boolean): getDynamicFieldObject
\* has data for the indices the ledger holds
fetched(indices) ==
    LET parsed == [i \in 1..Len(indices) |-> parseMessageObject(indices[i])]
    IN filterFrom(parsed, {i \in 1..Len(indices) : indices[i] < cache.count}, 1)

\* messages[messages.length - 1].messageIndex, or -1
lastMessageIndex(cached) ==
    IF Len(cached) > 0 THEN cached[Len(cached)].messageIndex ELSE -1

Operation(kind, indices, count) == [kind |-> kind, indices |-> indices, count |-> count]

CacheInit ==
    /\ cache = NoCache
    /\ storage = {}
    /\ attempts = <<>>
    /\ keyHook = NoKeyHook
    /\ sponsored = NoSponsored
    /\ pc = "idle" /\ box = NoBox /\ msg = NoMsg /\ out = Null /\ edit = "none"
    /\ DeriveIdle
    /\ HookIdle
    /\ InviteIdle
    /\ PageIdle

\* send_message on the ledger: the room holds one more message
SendMessage ==
    /\ cache.count < MaxCount
    /\ cache' = [cache EXCEPT !.count = @ + 1]

\* queryFn starts (mount, invalidation, refetch()): the dynamic fields are
\* listed and the objects of the last indices requested
QueryFn ==
    /\ cache.count > 0
    /\ Cardinality(cache.pending) < MaxPending
    /\ cache' = [cache EXCEPT
                    !.pending = @ \cup {Operation("query", currentIndicesToFetch(cache.count), 0)}]

\* await Promise.all(messagePromises) of queryFn resumes: the parsed
\* messages, sorted, become the cached list
QueryFnFetched(op) ==
    /\ op \in cache.pending
    /\ op.kind = "query"
    /\ cache' = [cache EXCEPT
                    !.pending = @ \ {op},
                    !.list = sortByMessageIndex(fetched(op.indices)),
                    !.applied = @ \cup {"query"}]

\* a MessageSent event of the chat arrives in a checkpoint: a message that
\* is not cached is requested
CheckpointEvent(messageIndex) ==
    /\ messageIndex < cache.count
    /\ Cardinality(cache.pending) < MaxPending
    /\ ~\E j \in 1..Len(cache.list) : cache.list[j].messageIndex = messageIndex
    /\ cache' = [cache EXCEPT !.pending = @ \cup {Operation("event", <<messageIndex>>, 0)}]

\* await client.getDynamicFieldObject of the checkpoint handler resumes
CheckpointFetched(op) ==
    /\ op \in cache.pending
    /\ op.kind = "event"
    /\ LET result == fetched(op.indices)
       IN IF result = <<>>
          THEN cache' = [cache EXCEPT !.pending = @ \ {op}]
          ELSE cache' = [cache EXCEPT
                            !.pending = @ \ {op},
                            !.list = appendOne(@, result[1]),
                            !.applied = @ \cup {"event"}]

\* pollInterval fires: the message count read from the ledger is greater
\* than the last known one, the ref is updated and the chat room refetched
PollInterval ==
    /\ cache.count > cache.lastCount
    /\ Cardinality(cache.pending) < MaxPending
    /\ cache' = [cache EXCEPT
                    !.lastCount = cache.count,
                    !.pending = @ \cup {Operation("poll", <<>>, cache.count)}]

\* await refetchChatRoom() of pollInterval resumes: the cached list is read
\* and the indices after its last one are requested
PollRefetched(op) ==
    /\ op \in cache.pending
    /\ op.kind = "poll"
    /\ LET currentLastIndex == lastMessageIndex(cache.list)
           expectedLastIndex == op.count - 1
       IN IF currentLastIndex < expectedLastIndex
          THEN cache' = [cache EXCEPT
                   !.pending = (@ \ {op}) \cup
                       {Operation("append", missingIndices(currentLastIndex + 1, expectedLastIndex), 0)}]
          ELSE cache' = [cache EXCEPT !.pending = @ \ {op}]

\* the effect that monitors missing messages runs with the rendered
\* messageCount and messages
MissingMessagesEffect(messageCount) ==
    /\ messageCount <= cache.count
    /\ Cardinality(cache.pending) < MaxPending
    /\ Len(cache.list) = 0 \/ lastMessageIndex(cache.list) < messageCount - 1
    /\ cache' = [cache EXCEPT
                    !.pending = @ \cup
                        {Operation("append",
                                   missingIndices(lastMessageIndex(cache.list) + 1, messageCount - 1), 0)}]

\* await Promise.all(messagePromises) of fetchAndAppendMissingMessages
\* resumes and the updater runs, or rejects and the caller calls refetch()
AppendFetched(op) ==
    /\ op \in cache.pending
    /\ op.kind = "append"
    /\ \/ LET newMessages == fetched(op.indices)
          IN IF Len(newMessages) > 0
             THEN cache' = [cache EXCEPT
                               !.pending = @ \ {op},
                               !.list = appendMissing(@, newMessages),
                               !.applied = @ \cup {"append"}]
             ELSE cache' = [cache EXCEPT !.pending = @ \ {op}]
       \/ cache' = [cache EXCEPT
                       !.pending = (@ \ {op}) \cup
                           {Operation("query", currentIndicesToFetch(cache.count), 0)}]

cacheOthers == <<cryptoVars, deriveVars, hookVars, inviteVars, pageVars, storage, attempts,
                 keyHook, sponsored>>

CacheNext ==
    \/ SendMessage /\ UNCHANGED cacheOthers
    \/ QueryFn /\ UNCHANGED cacheOthers
    \/ \E op \in cache.pending : QueryFnFetched(op) /\ UNCHANGED cacheOthers
    \/ \E i \in 0..(MaxCount - 1) : CheckpointEvent(i) /\ UNCHANGED cacheOthers
    \/ \E op \in cache.pending : CheckpointFetched(op) /\ UNCHANGED cacheOthers
    \/ PollInterval /\ UNCHANGED cacheOthers
    \/ \E op \in cache.pending : PollRefetched(op) /\ UNCHANGED cacheOthers
    \/ \E n \in 1..MaxCount : MissingMessagesEffect(n) /\ UNCHANGED cacheOthers
    \/ \E op \in cache.pending : AppendFetched(op) /\ UNCHANGED cacheOthers

CacheSpec == CacheInit /\ [][CacheNext]_vars

\* C29: whatever the interleaving of checkpoint appends, polling appends
\* and missing-message appends, the cached list of a chat holds no two
\* messages with the same messageIndex, is sorted by ascending
\* messageIndex and has at most MAX_MESSAGES_DISPLAY entries.
MessageCacheInvariant ==
    /\ \A j, k \in 1..Len(cache.list) :
          j < k => cache.list[j].messageIndex < cache.list[k].messageIndex
    /\ Len(cache.list) <= MAX_MESSAGES_DISPLAY
MessageCacheInvariantWitness ==
    /\ cache.applied = {"query", "event", "append"}
    /\ cache.count > MAX_MESSAGES_DISPLAY
    /\ Len(cache.list) = MAX_MESSAGES_DISPLAY
    /\ lastMessageIndex(cache.list) = cache.count - 1

====
